---------------------------- MODULE Spec2Model ----------------------------
(***************************************************************************)
(* Single-source shortest paths (exp/apps/sssp/FifoSSSP.cpp): the driver   *)
(* run<Algo>(), the serial baseline SerialAlgo, and the parallel operators *)
(* AsyncAlgo<UseCas>, AsyncSetAlgo<UseCas> and AsyncAlgoPP, executed by    *)
(* NumWorkers threads that interleave at every access to shared memory.    *)
(*                                                                         *)
(* Dist is an unsigned integer of DistBits bits (32 in the program); every *)
(* sum of the program is taken modulo 2^DistBits.                          *)
(***************************************************************************)
EXTENDS Integers, Sequences, FiniteSets, TLC

\* ------------------------------------------------------------------ bounds

NumWorkers == 2

DistBits == 4

\* --------------------------------------------------------------- constants

Modulus == 2^DistBits

DIST_INFINITY == Modulus - 1

Workers == 1..NumWorkers

Min2(a, b) == IF a <= b THEN a ELSE b

\* Dist arithmetic: unsigned addition of the width of Dist.
DistAdd(a, b) == (a + b) % Modulus

\* ------------------------------------------------------------------ graphs
\* A graph is [n |-> number of vertices, out |-> for vertex v (0-based) at
\* index v+1 the sequence of its out-edges <<dst, weight>> in edge order].

Triangle ==
  [n |-> 3, out |-> << << <<1, 1>>, <<2, 4>> >>, << <<2, 2>> >>, << >> >>]

Disconnected ==
  [n |-> 3, out |-> << << <<1, 2>> >>, << >>, << <<1, 1>> >> >>]

SourceCycle ==
  [n |-> 3, out |-> << << <<0, 1>>, <<1, 5>> >>, << <<0, 1>>, <<2, 1>> >>, << >> >>]

ParallelEdges ==
  [n |-> 3, out |-> << << <<1, 5>>, <<1, 3>> >>, << <<2, 1>> >>, << >> >>]

LongChain ==
  [n |-> 3, out |-> << << <<1, 9>> >>, << <<2, 9>> >>, << >> >>]

Diamond ==
  [n |-> 4, out |-> << << <<1, 1>>, <<2, 4>> >>, << <<2, 2>>, <<3, 5>> >>,
                       << <<3, 1>> >>, << >> >>]

HeavyEdge ==
  [n |-> 2, out |-> << << <<1, DIST_INFINITY>> >>, << >> >>]

\* Node 2 is reached twice and has two out-edges: it can be lowered while
\* its out-edges are scanned.
Funnel ==
  [n |-> 3, out |-> << << <<1, 1>>, <<2, 5>> >>, << <<2, 1>> >>,
                       << <<0, 1>>, <<1, 1>> >> >>]

\* Node 1 has an edge to itself whose weight makes the sum at it overflow.
HeavyLoop ==
  [n |-> 2, out |-> << << <<1, 3>> >>, << <<1, DIST_INFINITY>> >> >>]

Graphs ==
  << Triangle, Disconnected, SourceCycle, ParallelEdges, LongChain, Diamond,
     HeavyEdge, Funnel, HeavyLoop >>

GraphIds == 1..Len(Graphs)

NumNodes(g) == Graphs[g].n

Nodes(g) == 0..(NumNodes(g) - 1)

OutEdges(g, v) == Graphs[g].out[v + 1]

Degree(g, v) == Len(OutEdges(g, v))

EdgeDst(g, v, i) == OutEdges(g, v)[i][1]

EdgeData(g, v, i) == OutEdges(g, v)[i][2]

\* The destinations of the out-edges of v.
Neighbors(g, v) == {EdgeDst(g, v, i) : i \in 1..Degree(g, v)}

\* ------------------------------------------------------ algorithm selection

CasSetAlgos ==
  {"asyncWithCasBlindObim", "asyncWithCasBlindFifo",
   "asyncWithCasBlindFifoHSet", "asyncWithCasBlindFifoMSet",
   "asyncWithCasBlindFifoOSet", "asyncWithCasBlindObimHSet",
   "asyncWithCasBlindObimMSet", "asyncWithCasBlindObimOSet"}

PlainSetAlgos ==
  {"asyncBlindObim", "asyncBlindFifo",
   "asyncBlindFifoHSet", "asyncBlindFifoMSet", "asyncBlindFifoOSet",
   "asyncBlindObimHSet", "asyncBlindObimMSet", "asyncBlindObimOSet"}

ParallelAlgos ==
  {"async", "asyncFifo", "asyncWithCas", "asyncWithCasFifo", "asyncPP"}
    \cup CasSetAlgos \cup PlainSetAlgos

Algos == ParallelAlgos \cup {"serial"}

\* The --algo values the option accepts for which main()'s switch has no
\* case: their case lines are commented out.
UnhandledAlgos == {"ligra", "ligraChi"}

\* The --algo values the command line accepts whose outcome is decided by
\* this file (graphlab runs GraphLabAlgo, which is defined elsewhere).
AcceptedAlgos == Algos \cup UnhandledAlgos

\* main(): the algorithm structure run<...>() is instantiated with.
AlgoKind(a) ==
  CASE a = "serial" -> "SerialAlgo"
    [] a \in UnhandledAlgos -> "Unknown"
    [] a \in {"async", "asyncFifo", "asyncWithCas", "asyncWithCasFifo"} -> "AsyncAlgo"
    [] a = "asyncPP" -> "AsyncAlgoPP"
    [] OTHER -> "AsyncSetAlgo"

\* main(): the UseCas template argument (AsyncAlgoPP always uses CAS).
UseCas(a) ==
  a \in {"asyncWithCas", "asyncWithCasFifo", "asyncPP"} \cup CasSetAlgos

\* The work list each operator() hands to for_each_local.
WorkList(a) ==
  CASE a \in {"asyncFifo", "asyncWithCasFifo"} -> "dChunkedFIFO"
    [] a \in {"async", "asyncWithCas", "asyncPP"} -> "OBIM"
    [] a \in {"asyncBlindFifoMSet", "asyncWithCasBlindFifoMSet"} -> "MSet"
    [] a \in {"asyncBlindFifoOSet", "asyncWithCasBlindFifoOSet"} -> "OSet"
    [] a \in {"asyncBlindFifoHSet", "asyncWithCasBlindFifoHSet"} -> "HSet"
    [] a \in {"asyncBlindFifo", "asyncWithCasBlindFifo"} -> "dChunkedFIFO"
    [] a \in {"asyncBlindObimMSet", "asyncWithCasBlindObimMSet"} -> "ObimMSet"
    [] a \in {"asyncBlindObimOSet", "asyncWithCasBlindObimOSet"} -> "ObimOSet"
    [] a \in {"asyncBlindObimHSet", "asyncWithCasBlindObimHSet"} -> "ObimHSet"
    [] OTHER -> "OBIM"

\* Whether the work list orders by the indexer (OBIM) or is a single FIFO.
UsesObim(wlt) == wlt \in {"OBIM", "ObimMSet", "ObimOSet", "ObimHSet"}

\* The duplicate filter of the work list: the node's own inSet flag
\* (marking set), a separate set of nodes (two-level set or hash), or none.
SetKind(wlt) ==
  CASE wlt \in {"MSet", "ObimMSet"} -> "marking"
    [] wlt \in {"OSet", "HSet", "ObimOSet", "ObimHSet"} -> "set"
    [] OTHER -> "none"

\* ------------------------------------------------------------------- state

VARIABLES
  algo,          \* --algo
  graph,         \* the input graph (an index of Graphs)
  startNode,     \* --startNode
  reportNode,    \* --reportNode
  stepShift,     \* --delta
  shiftCount,    \* the count the indexer's shift by --delta is executed with
  phase,         \* the position of run<Algo>()
  dist,          \* dist of every node
  inSet,         \* SetNode::inSet of every node
  wset,          \* the members of the two-level set or hash of the work list
  initial,       \* the Bag `initial`: what each thread inserted, in order
  serialInitial, \* SerialAlgo's ordered set `initial`
  seedTodo,      \* the out-edges of the source do_all has not handed out yet
  wl,            \* the work list: each thread's local entries, in order
  cur,           \* OBIM: each thread's cached current bucket
  pc,            \* each thread's position in the operator
  req,           \* each thread's request (or node) being processed
  ii,            \* each thread's edge iterator (index of the out-edge)
  sdist,         \* each thread's copy of the source distance
  newDist,       \* relaxEdge's newDist
  oldDist,       \* relaxEdge's oldDist
  exitCode,      \* the outcome of the process, "running" until it ends
  prev,          \* the earlier executions of the program: what each ended with
  BadWork,       \* the statistic BadWork
  WLEmptyWork,   \* the statistic EmptyWork
  popped         \* the items for_each_local has handed to the operator

\* The state of dist-graph-convert (tools/dist-graph-convert): the hosts that
\* redistribute the edges they loaded to the hosts that own the sources.
VARIABLES
  distribution,   \* the input (an index of Distributions)
  withData,       \* EdgeDataTy is not void: the edges carry data
  hostPhase,      \* the function each host is in
  edgesToSend,    \* do_all of Pass2: each thread's block of edge indices left
  lastSourceSent, \* per host, thread and owner: lastSourceSentStorage
  dstVectors,     \* per host, thread and owner: dstVectors
  dataVectors,    \* per host, thread and owner: dataVectors
  sendBuffers,    \* per host, thread and owner: the records serialized
  cleaned,        \* per host: the threads that ran Pass2Cleanup
  net,            \* the messages sent and not yet received, in send order
  countsToReceive, \* per host: the count messages still expected
  edgesToReceive, \* per host: the edges still expected
  localSrcToDest, \* per host and local node: the destinations
  localSrcToData, \* per host and local node: the edge data
  nodeLocks,      \* per host and local node: the thread holding the mutex, or 0
  savePc          \* per host and thread: where the thread is in saving an edge

perThread ==
  << edgesToSend, lastSourceSent, dstVectors, dataVectors, sendBuffers, cleaned >>

locking == << nodeLocks, savePc >>

converter ==
  << distribution, withData, hostPhase, perThread, net, countsToReceive,
     edgesToReceive, localSrcToDest, localSrcToData, locking >>

\* The tool is not running.
ConverterIdle ==
  /\ distribution = 0
  /\ withData = FALSE
  /\ hostPhase = << >>
  /\ edgesToSend = << >>
  /\ lastSourceSent = << >>
  /\ dstVectors = << >>
  /\ dataVectors = << >>
  /\ sendBuffers = << >>
  /\ cleaned = << >>
  /\ net = << >>
  /\ countsToReceive = << >>
  /\ edgesToReceive = << >>
  /\ localSrcToDest = << >>
  /\ localSrcToData = << >>
  /\ nodeLocks = << >>
  /\ savePc = << >>

stats == << BadWork, WLEmptyWork, popped >>

vars ==
  << converter, stats, algo, graph, startNode, reportNode, stepShift, shiftCount, phase, dist, inSet, wset,
     initial, serialInitial, seedTodo, wl, cur, pc, req, ii, sdist, newDist,
     oldDist, exitCode, prev >>

config == << algo, graph, startNode, reportNode, stepShift, shiftCount >>

locals == << pc, req, ii, sdist, newDist, oldDist >>

worklist == << wl, cur, wset >>

NoReq == [n |-> 0, w |-> 0]

\* The values of --delta the model runs with: the two of the spec's
\* regression scenario, the program's default, and a negative one (the
\* option is a signed int).
StepShifts == {-1, 0, 10, 20}

\* val.w >> stepShift: a shift by a negative count is undefined. The shift
\* instruction takes the count modulo the width of Dist, or as a count of the
\* width or more, which shifts every bit out.
ShiftCounts(s) == IF s >= 0 THEN {s} ELSE {s % DistBits, DistBits}

\* Nodes the command line may name: valid ones and the first invalid one.
StartNodes(g) == {0, 1, NumNodes(g)}

ReportNodes(g) == {1, NumNodes(g)}

\* Node data before Initialize ran: whatever the allocation holds.
Garbage(g) == {[v \in Nodes(g) |-> 0], [v \in Nodes(g) |-> 1]}

Init ==
  /\ algo \in AcceptedAlgos
  /\ graph \in GraphIds
  /\ startNode \in StartNodes(graph)
  /\ reportNode \in ReportNodes(graph)
  /\ stepShift \in StepShifts
  /\ shiftCount \in ShiftCounts(stepShift)
  /\ phase = "start"
  /\ dist \in Garbage(graph)
  /\ inSet = [v \in Nodes(graph) |-> FALSE]
  /\ wset = {}
  /\ initial = [t \in Workers |-> << >>]
  /\ serialInitial = {}
  /\ seedTodo = {}
  /\ wl = [t \in Workers |-> << >>]
  /\ cur = [t \in Workers |-> 0]
  /\ pc = [t \in Workers |-> "idle"]
  /\ req = [t \in Workers |-> NoReq]
  /\ ii = [t \in Workers |-> 0]
  /\ sdist = [t \in Workers |-> 0]
  /\ newDist = [t \in Workers |-> 0]
  /\ oldDist = [t \in Workers |-> 0]
  /\ exitCode = "running"
  /\ prev = << >>
  /\ BadWork = 0
  /\ WLEmptyWork = 0
  /\ popped = 0
  /\ ConverterIdle

Kind == AlgoKind(algo)

Cas == UseCas(algo)

WLType == WorkList(algo)

\* ------------------------------------------------------------------ driver

\* main(): the default case of the switch over algo.
UnknownAlgorithm ==
  /\ phase = "start"
  /\ Kind = "Unknown"
  /\ phase' = "aborted"
  /\ exitCode' = "abort"
  /\ UNCHANGED << converter, stats, config, prev, dist, inSet, worklist, initial, serialInitial,
                  seedTodo, locals >>

\* initialize(): the start and report nodes must be nodes of the graph.
Initialize ==
  /\ phase = "start"
  /\ Kind # "Unknown"
  /\ IF startNode >= NumNodes(graph) \/ reportNode >= NumNodes(graph)
       THEN /\ phase' = "aborted"
            /\ exitCode' = "abort"
       ELSE /\ phase' = "init"
            /\ UNCHANGED exitCode
  /\ UNCHANGED << converter, stats, config, prev, dist, inSet, worklist, initial, serialInitial,
                  seedTodo, locals >>

\* run(): do_all_local(graph, Algo::Initialize(graph)).
InitializeDist ==
  /\ phase = "init"
  /\ dist' = [v \in Nodes(graph) |-> DIST_INFINITY]
  /\ inSet' = [v \in Nodes(graph) |-> FALSE]
  /\ phase' = "operator"
  /\ UNCHANGED << converter, stats, config, prev, worklist, initial, serialInitial, seedTodo, locals,
                  exitCode >>

\* Algo::operator() up to its do_all: the source gets distance 0 and its
\* out-edges are handed to InitialProcess. SerialAlgo inserts (src, 0).
BeginOperator ==
  /\ phase = "operator"
  /\ IF Kind = "SerialAlgo"
       THEN /\ serialInitial' = {[n |-> startNode, w |-> 0]}
            /\ phase' = "serial"
            /\ UNCHANGED << dist, seedTodo >>
       ELSE /\ dist' = [dist EXCEPT ![startNode] = 0]
            /\ seedTodo' = 1..Degree(graph, startNode)
            /\ phase' = "seed"
            /\ UNCHANGED serialInitial
  /\ UNCHANGED << converter, stats, config, prev, inSet, worklist, initial, locals, exitCode >>

\* ---------------------------------------------------------- serial baseline

\* UpdateRequestCommon::operator<: by proposed distance, then by node.
UpdateRequestLess(a, b) == a.w < b.w \/ (a.w = b.w /\ a.n < b.n)

\* *initial.begin(): the least request of the ordered set.
SetBegin(S) == CHOOSE a \in S : \A b \in S \ {a} : UpdateRequestLess(a, b)

\* The requests one iteration of SerialAlgo's loop inserts for request r,
\* reading the distances d (after data.dist = req.w).
SerialInserts(g, r, d) ==
  {[n |-> EdgeDst(g, r.n, i), w |-> DistAdd(r.w, EdgeData(g, r.n, i))] :
     i \in {j \in 1..Degree(g, r.n) :
              DistAdd(r.w, EdgeData(g, r.n, j)) < d[EdgeDst(g, r.n, j)]}}

\* One iteration of the loop of SerialAlgo::operator(): the state after it.
SerialIteration(g, st) ==
  LET r == SetBegin(st.initial)
      rest == st.initial \ {r}
  IN  IF r.w < st.dist[r.n]
        THEN LET d == [st.dist EXCEPT ![r.n] = r.w]
             IN  [dist |-> d, initial |-> rest \cup SerialInserts(g, r, d)]
        ELSE [dist |-> st.dist, initial |-> rest]

RECURSIVE SerialLoop(_, _)
\* SerialAlgo::operator() run to the end of its loop.
SerialLoop(g, st) ==
  IF st.initial = {} THEN st.dist ELSE SerialLoop(g, SerialIteration(g, st))

\* The dist array SerialAlgo leaves for graph g and source src.
SerialDist(g, src) ==
  SerialLoop(g, [dist |-> [v \in Nodes(g) |-> DIST_INFINITY],
                 initial |-> {[n |-> src, w |-> 0]}])

\* SerialAlgo::operator(): one iteration of the loop, or its end.
SerialStep ==
  /\ phase = "serial"
  /\ IF serialInitial = {}
       THEN /\ phase' = "verify"
            /\ UNCHANGED << dist, serialInitial >>
       ELSE LET st == SerialIteration(graph, [dist |-> dist, initial |-> serialInitial])
            IN  /\ dist' = st.dist
                /\ serialInitial' = st.initial
                /\ UNCHANGED phase
  /\ UNCHANGED << converter, stats, config, prev, inSet, worklist, initial, seedTodo, locals, exitCode >>

\* --------------------------------------------------------------- work list
\* An entry of the work list is [b |-> bucket, n |-> node, w |-> proposed
\* distance]; the set variants queue the node alone and w is 0.

\* UpdateRequestIndexer / NodeIndexer: the shift of the proposed distance,
\* or of the node's distance as it is when the node is pushed.
Indexer(k, shift, item, d) ==
  IF k = "AsyncSetAlgo" THEN d[item.n] \div 2^shift ELSE item.w \div 2^shift

\* The bucket of an item: the indexer's under OBIM, one bucket otherwise.
Bucket(a, shift, item, d) ==
  IF UsesObim(WorkList(a)) THEN Indexer(AlgoKind(a), shift, item, d) ELSE 0

\* Whether the work list's duplicate filter holds node n.
Member(a, ws, n) ==
  CASE SetKind(WorkList(a)) = "marking" -> ws.inSet[n]
    [] SetKind(WorkList(a)) = "set" -> n \in ws.wset
    [] OTHER -> FALSE

\* WLPush whose dropped push takes the node out of the set.
WLPushUnset(a, shift, ws, t, item, d) ==
  IF Member(a, ws, item.n)
    THEN [wl |-> ws.wl, cur |-> ws.cur, wset |-> ws.wset \ {item.n},
          inSet |-> [ws.inSet EXCEPT ![item.n] = FALSE]]
    ELSE LET b == Bucket(a, shift, item, d)
         IN  [wl |-> [ws.wl EXCEPT ![t] = Append(@, [b |-> b, n |-> item.n, w |-> item.w])],
              cur |-> [ws.cur EXCEPT ![t] = Min2(@, b)],
              wset |-> IF SetKind(WorkList(a)) = "set"
                         THEN ws.wset \cup {item.n} ELSE ws.wset,
              inSet |-> IF SetKind(WorkList(a)) = "marking"
                          THEN [ws.inSet EXCEPT ![item.n] = TRUE] ELSE ws.inSet]

\* WLPush without the membership test: every push is queued.
WLPushNoFilter(a, shift, ws, t, item, d) ==
  LET b == Bucket(a, shift, item, d)
  IN  [wl |-> [ws.wl EXCEPT ![t] = Append(@, [b |-> b, n |-> item.n, w |-> item.w])],
       cur |-> [ws.cur EXCEPT ![t] = Min2(@, b)],
       wset |-> IF SetKind(WorkList(a)) = "set"
                  THEN ws.wset \cup {item.n} ELSE ws.wset,
       inSet |-> IF SetKind(WorkList(a)) = "marking"
                   THEN [ws.inSet EXCEPT ![item.n] = TRUE] ELSE ws.inSet]

\* push(item) by thread t on the work list ws = [wl, cur, wset, inSet],
\* the distances being d: dropped when the filter holds the node.
WLPush(a, shift, ws, t, item, d) ==
  IF Member(a, ws, item.n)
    THEN ws
    ELSE LET b == Bucket(a, shift, item, d)
         IN  [wl |-> [ws.wl EXCEPT ![t] = Append(@, [b |-> b, n |-> item.n, w |-> item.w])],
              cur |-> [ws.cur EXCEPT ![t] = Min2(@, b)],
              wset |-> IF SetKind(WorkList(a)) = "set"
                         THEN ws.wset \cup {item.n} ELSE ws.wset,
              inSet |-> IF SetKind(WorkList(a)) = "marking"
                          THEN [ws.inSet EXCEPT ![item.n] = TRUE] ELSE ws.inSet]

RECURSIVE WLPushSeq(_, _, _, _, _, _)
\* The items of sequence q pushed in order by thread t.
WLPushSeq(a, shift, ws, t, q, d) ==
  IF q = << >> THEN ws
  ELSE WLPushSeq(a, shift, WLPush(a, shift, ws, t, Head(q), d), t, Tail(q), d)

RECURSIVE WLPushInitial(_, _, _, _, _, _)
\* for_each_local(initial, ...): every thread pushes its part of the bag.
WLPushInitial(a, shift, ws, bag, t, d) ==
  IF t > NumWorkers THEN ws
  ELSE WLPushInitial(a, shift, WLPushSeq(a, shift, ws, t, bag[t], d), bag, t + 1, d)

\* The entries of thread t in bucket b, in order: its chunk of that bucket.
Chunk(q, b) == SelectSeq(q, LAMBDA e : e.b = b)

\* Sequence q without its first entry of bucket b.
RECURSIVE DropFirst(_, _)
DropFirst(q, b) ==
  IF q = << >> THEN << >>
  ELSE IF Head(q).b = b THEN Tail(q)
  ELSE << Head(q) >> \o DropFirst(Tail(q), b)

\* The buckets that hold an entry, over all threads.
ActiveBuckets(w) == UNION {{w[t][i].b : i \in 1..Len(w[t])} : t \in Workers}

MinOf(S) == CHOOSE x \in S : \A y \in S : x <= y

\* pop() by thread t taking from its own chunk of bucket b.
PopLocal(ws, t, b) ==
  [item |-> Head(Chunk(ws.wl[t], b)),
   wl |-> [ws.wl EXCEPT ![t] = DropFirst(@, b)],
   cur |-> [ws.cur EXCEPT ![t] = b]]

\* PopSteal that leaves the stolen chunk with its owner as well.
PopStealCopy(ws, t, s, b) ==
  [item |-> Head(Chunk(ws.wl[s], b)),
   wl |-> [ws.wl EXCEPT ![t] = @ \o Tail(Chunk(ws.wl[s], b))],
   cur |-> [ws.cur EXCEPT ![t] = b]]

\* pop() by thread t stealing the chunk of bucket b from thread s.
PopSteal(ws, t, s, b) ==
  [item |-> Head(Chunk(ws.wl[s], b)),
   wl |-> [ws.wl EXCEPT ![s] = SelectSeq(@, LAMBDA e : e.b # b),
                        ![t] = @ \o Tail(Chunk(ws.wl[s], b))],
   cur |-> [ws.cur EXCEPT ![t] = b]]

\* PopResults that always goes to the lowest bucket that holds an entry.
PopResultsLowest(ws, t) ==
  IF ActiveBuckets(ws.wl) = {} THEN {}
  ELSE LET b == MinOf(ActiveBuckets(ws.wl))
       IN  IF Chunk(ws.wl[t], b) # << >>
             THEN {PopLocal(ws, t, b)}
             ELSE {PopSteal(ws, t, s, b) :
                     s \in {u \in Workers : Chunk(ws.wl[u], b) # << >>}}

\* The results pop() by thread t may have: from the cached current bucket
\* while the thread has entries there, otherwise from the lowest bucket
\* that holds an entry, the thread's own or a stolen chunk.
PopResults(ws, t) ==
  IF Chunk(ws.wl[t], ws.cur[t]) # << >>
    THEN {PopLocal(ws, t, ws.cur[t])}
  ELSE IF ActiveBuckets(ws.wl) = {} THEN {}
  ELSE LET b == MinOf(ActiveBuckets(ws.wl))
       IN  IF Chunk(ws.wl[t], b) # << >>
             THEN {PopLocal(ws, t, b)}
             ELSE {PopSteal(ws, t, s, b) :
                     s \in {u \in Workers : Chunk(ws.wl[u], b) # << >>}}

\* Unmark that leaves the node in the set.
UnmarkNever(a, ws, n) == [wset |-> ws.wset, inSet |-> ws.inSet]

\* The filter after node n was popped: the node leaves the set.
Unmark(a, ws, n) ==
  [wset |-> IF SetKind(WorkList(a)) = "set" THEN ws.wset \ {n} ELSE ws.wset,
   inSet |-> IF SetKind(WorkList(a)) = "marking"
               THEN [ws.inSet EXCEPT ![n] = FALSE] ELSE ws.inSet]

\* Global emptiness: no entry in any thread's chunks, no thread mid-operator.
WLEmpty == \A t \in Workers : wl[t] = << >>

AllIdle == \A t \in Workers : pc[t] = "idle"

\* ---------------------------------------------------------------- operator

Src(t) == req[t].n

Dst(t) == EdgeDst(graph, Src(t), ii[t])

Weight(t) == EdgeData(graph, Src(t), ii[t])

SetLocals(t, p, r, i, s, nd, od) ==
  /\ pc' = [pc EXCEPT ![t] = p]
  /\ req' = [req EXCEPT ![t] = r]
  /\ ii' = [ii EXCEPT ![t] = i]
  /\ sdist' = [sdist EXCEPT ![t] = s]
  /\ newDist' = [newDist EXCEPT ![t] = nd]
  /\ oldDist' = [oldDist EXCEPT ![t] = od]

\* The operator (or the do_all iteration) of thread t returns.
Return(t) == SetLocals(t, "idle", NoReq, 0, 0, 0, 0)

\* Where the handling of an out-edge starts: AsyncAlgo::relaxNode compares
\* req.w with the source distance, relaxEdge of AsyncAlgo (called by
\* InitialProcess) and of AsyncSetAlgo reads the source distance,
\* AsyncAlgoPP::relaxEdge adds the weight to its local copy.
EdgeEntry(k) ==
  CASE k = "AsyncAlgo" /\ phase = "run" -> "check"
    [] k = "AsyncAlgoPP" -> "read"
    [] OTHER -> "arg"

\* Thread t starts on out-edge i of node r.n, its distance copy being s.
StartEdge(t, r, i, s) ==
  SetLocals(t, EdgeEntry(Kind), r, i, s,
            IF Kind = "AsyncAlgoPP" THEN DistAdd(s, EdgeData(graph, r.n, i)) ELSE 0,
            0)

\* EdgeDone that ends the operator after the first out-edge.
EdgeDoneFirst(t, s) == Return(t)

\* relaxEdge returned: the next out-edge of the node, or the end of the
\* operator; a do_all iteration of InitialProcess relaxes one edge.
EdgeDone(t, s) ==
  IF phase = "seed" \/ ii[t] >= Degree(graph, Src(t))
    THEN Return(t)
    ELSE StartEdge(t, req[t], ii[t] + 1, s)

\* MethodFlag::WRITE (the operators without CAS): a thread past the entry
\* of the operator holds the locks of its node and, from edge_begin, of the
\* node's neighbors, until the operator returns. A thread that finds a lock
\* taken aborts before it wrote anything and the item is run again.
Holds(t) ==
  IF phase = "run" /\ ~Cas /\ pc[t] \notin {"idle", "gate"}
    THEN {Src(t)} \cup Neighbors(graph, Src(t))
    ELSE {}

CanLock(t, S) == Cas \/ \A o \in Workers \ {t} : Holds(o) \cap S = {}

\* The request pushed for the destination of the edge being relaxed.
Pushed(t) ==
  [n |-> Dst(t), w |-> IF Kind = "AsyncSetAlgo" THEN 0 ELSE newDist[t]]

\* pusher.push(item) by thread t, the distances being d: into the bag while
\* InitialProcess runs, onto the work list inside for_each_local.
Push(t, item, d) ==
  IF phase = "seed"
    THEN /\ initial' = [initial EXCEPT ![t] = Append(@, item)]
         /\ UNCHANGED << wl, cur, wset, inSet >>
    ELSE LET r == WLPush(algo, shiftCount,
                         [wl |-> wl, cur |-> cur, wset |-> wset, inSet |-> inSet],
                         t, item, d)
         IN  /\ wl' = r.wl
             /\ cur' = r.cur
             /\ wset' = r.wset
             /\ inSet' = r.inSet
             /\ UNCHANGED initial

\* do_all over the out-edges of the source: thread t takes an edge and
\* calls InitialProcess on it.
SeedClaim(t) ==
  /\ phase = "seed"
  /\ pc[t] = "idle"
  /\ \E i \in seedTodo :
       /\ seedTodo' = seedTodo \ {i}
       /\ StartEdge(t, [n |-> startNode, w |-> 0], i, 0)
  /\ UNCHANGED << converter, stats, config, prev, phase, dist, inSet, worklist, initial, serialInitial,
                  exitCode >>

\* The do_all is over: for_each_local starts on the bag.
StartForEach ==
  /\ phase = "seed"
  /\ seedTodo = {}
  /\ AllIdle
  /\ LET r == WLPushInitial(algo, shiftCount,
                            [wl |-> wl, cur |-> cur, wset |-> wset, inSet |-> inSet],
                            initial, 1, dist)
     IN  /\ wl' = r.wl
         /\ cur' = r.cur
         /\ wset' = r.wset
         /\ inSet' = r.inSet
  /\ initial' = [t \in Workers |-> << >>]
  /\ phase' = "run"
  /\ UNCHANGED << converter, stats, config, prev, dist, serialInitial, seedTodo, locals, exitCode >>

\* The entry of the operator after a pop. AsyncSetAlgo<true> touches no
\* shared data before its first relaxEdge.
AfterPop(t, r) ==
  IF Kind = "AsyncSetAlgo" /\ Cas
    THEN IF Degree(graph, r.n) = 0
           THEN Return(t)
           ELSE StartEdge(t, r, 1, 0)
    ELSE SetLocals(t, "gate", r, 0, 0, 0, 0)

\* A thread of for_each_local pops an item; the work-set takes the node
\* out of its set as it hands the node over.
Pop(t) ==
  /\ phase = "run"
  /\ pc[t] = "idle"
  /\ \E r \in PopResults([wl |-> wl, cur |-> cur], t) :
       LET u == Unmark(algo, [wset |-> wset, inSet |-> inSet], r.item.n)
       IN  /\ wl' = r.wl
           /\ cur' = r.cur
           /\ wset' = u.wset
           /\ inSet' = u.inSet
           /\ AfterPop(t, [n |-> r.item.n, w |-> r.item.w])
  /\ popped' = popped + 1
  /\ UNCHANGED << converter, BadWork, WLEmptyWork, config, prev, phase, dist, initial, serialInitial, seedTodo, exitCode >>

\* GateAsync that counts a superseded request and scans its edges all the
\* same.
GateAsyncScan(t) ==
  /\ Kind = "AsyncAlgo"
  /\ CanLock(t, {Src(t)} \cup Neighbors(graph, Src(t)))
  /\ WLEmptyWork' = IF req[t].w # dist[Src(t)] THEN WLEmptyWork + 1 ELSE WLEmptyWork
  /\ IF Degree(graph, Src(t)) = 0
       THEN Return(t)
       ELSE SetLocals(t, "arg", req[t], 1, 0, 0, 0)

\* AsyncAlgo::relaxNode up to its loop: the empty-work gate.
GateAsync(t) ==
  /\ Kind = "AsyncAlgo"
  /\ CanLock(t, {Src(t)})
  /\ IF req[t].w # dist[Src(t)]
       THEN /\ WLEmptyWork' = WLEmptyWork + 1
            /\ Return(t)
       ELSE /\ CanLock(t, Neighbors(graph, Src(t)))
            /\ UNCHANGED WLEmptyWork
            /\ IF Degree(graph, Src(t)) = 0
                 THEN Return(t)
                 ELSE StartEdge(t, req[t], 1, 0)

\* AsyncAlgoPP::Process::operator() up to its loop: sdist = psdist.
GatePP(t) ==
  /\ Kind = "AsyncAlgoPP"
  /\ IF req[t].w # dist[Src(t)]
       THEN /\ WLEmptyWork' = WLEmptyWork + 1
            /\ Return(t)
       ELSE /\ UNCHANGED WLEmptyWork
            /\ IF Degree(graph, Src(t)) = 0
                 THEN Return(t)
                 ELSE StartEdge(t, req[t], 1, dist[Src(t)])

\* AsyncSetAlgo<false>::relaxNode up to its loop: getData and edge_begin
\* with MethodFlag::WRITE.
GateSet(t) ==
  /\ Kind = "AsyncSetAlgo"
  /\ CanLock(t, {Src(t)} \cup Neighbors(graph, Src(t)))
  /\ UNCHANGED WLEmptyWork
  /\ IF Degree(graph, Src(t)) = 0
       THEN Return(t)
       ELSE StartEdge(t, req[t], 1, 0)

Gate(t) ==
  /\ phase = "run"
  /\ pc[t] = "gate"
  /\ (GateAsync(t) \/ GatePP(t) \/ GateSet(t))
  /\ UNCHANGED << converter, BadWork, popped, config, prev, phase, dist, inSet, worklist, initial, serialInitial,
                  seedTodo, exitCode >>

\* Check that counts a superseded request and goes on with the scan.
CheckNoBreak(t) ==
  /\ pc[t] = "check"
  /\ WLEmptyWork' = IF req[t].w # dist[Src(t)] THEN WLEmptyWork + 1 ELSE WLEmptyWork
  /\ SetLocals(t, "arg", req[t], ii[t], 0, 0, 0)
  /\ UNCHANGED << converter, BadWork, popped, config, prev, phase, dist, inSet, worklist,
                  initial, serialInitial, seedTodo, exitCode >>

\* AsyncAlgo::relaxNode, the head of the loop body: req.w != sdist ends
\* the scan.
Check(t) ==
  /\ pc[t] = "check"
  /\ IF req[t].w # dist[Src(t)]
       THEN /\ WLEmptyWork' = WLEmptyWork + 1
            /\ Return(t)
       ELSE /\ UNCHANGED WLEmptyWork
            /\ SetLocals(t, "arg", req[t], ii[t], 0, 0, 0)
  /\ UNCHANGED << converter, BadWork, popped, config, prev, phase, dist, inSet, worklist, initial, serialInitial,
                  seedTodo, exitCode >>

\* Arg that takes the distance of the request for the source distance.
ArgFromRequest(t) ==
  /\ pc[t] = "arg"
  /\ SetLocals(t, "read", req[t], ii[t], req[t].w, DistAdd(req[t].w, Weight(t)), 0)
  /\ UNCHANGED << converter, stats, config, prev, phase, dist, inSet, worklist, initial,
                  serialInitial, seedTodo, exitCode >>

\* relaxEdge of AsyncAlgo and AsyncSetAlgo: the source distance is read and
\* newDist = sdist + d.
Arg(t) ==
  /\ pc[t] = "arg"
  /\ SetLocals(t, "read", req[t], ii[t], dist[Src(t)],
               DistAdd(dist[Src(t)], Weight(t)), 0)
  /\ UNCHANGED << converter, stats, config, prev, phase, dist, inSet, worklist, initial, serialInitial,
                  seedTodo, exitCode >>

\* AsyncAlgoPP::relaxEdge, the else branch: the pull.
Pull(t, od) == Min2(DistAdd(od, Weight(t)), sdist[t])

\* Read with the test newDist < oldDist left out: every edge is written.
ReadNoTest(t) ==
  /\ pc[t] = "read"
  /\ SetLocals(t, "cas", req[t], ii[t], sdist[t], newDist[t], dist[Dst(t)])
  /\ UNCHANGED << converter, stats, config, prev, phase, dist, inSet, worklist, initial, serialInitial,
                  seedTodo, exitCode >>

\* Read with the test written newDist != oldDist.
ReadNe(t) ==
  /\ pc[t] = "read"
  /\ LET od == dist[Dst(t)]
     IN  IF newDist[t] # od
           THEN SetLocals(t, "cas", req[t], ii[t], sdist[t], newDist[t], od)
           ELSE EdgeDone(t, IF Kind = "AsyncAlgoPP" THEN Pull(t, od) ELSE sdist[t])
  /\ UNCHANGED << converter, stats, config, prev, phase, dist, inSet, worklist, initial, serialInitial,
                  seedTodo, exitCode >>

\* relaxEdge: oldDist = ddata.dist and the test newDist < oldDist.
Read(t) ==
  /\ pc[t] = "read"
  /\ LET od == dist[Dst(t)]
     IN  IF newDist[t] < od
           THEN SetLocals(t, "cas", req[t], ii[t], sdist[t], newDist[t], od)
           ELSE EdgeDone(t, IF Kind = "AsyncAlgoPP" THEN Pull(t, od) ELSE sdist[t])
  /\ UNCHANGED << converter, stats, config, prev, phase, dist, inSet, worklist, initial, serialInitial,
                  seedTodo, exitCode >>

\* AsyncAlgoPP::relaxEdge: the test of the do-while after a failed CAS.
Reread(t) ==
  /\ pc[t] = "reread"
  /\ LET od == dist[Dst(t)]
     IN  IF newDist[t] < od
           THEN SetLocals(t, "cas", req[t], ii[t], sdist[t], newDist[t], od)
           ELSE EdgeDone(t, sdist[t])
  /\ UNCHANGED << converter, stats, config, prev, phase, dist, inSet, worklist, initial, serialInitial,
                  seedTodo, exitCode >>

\* Retry without reading oldDist again: the CAS is repeated as it was.
RetryStale(k) == "cas"

\* Where a failed CAS continues.
Retry(k) == IF k = "AsyncAlgoPP" THEN "reread" ELSE "read"

\* WriteAndPush without the push.
WriteNoPush(t) ==
  /\ dist' = [dist EXCEPT ![Dst(t)] = newDist[t]]
  /\ BadWork' = IF oldDist[t] # DIST_INFINITY THEN BadWork + 1 ELSE BadWork
  /\ UNCHANGED << inSet, worklist, initial >>
  /\ EdgeDone(t, sdist[t])

\* The write of relaxEdge that goes through: dist[dst] = newDist, then the
\* push.
WriteAndPush(t) ==
  LET d == [dist EXCEPT ![Dst(t)] = newDist[t]]
  IN  /\ dist' = d
      /\ BadWork' = IF oldDist[t] # DIST_INFINITY THEN BadWork + 1 ELSE BadWork
      /\ Push(t, Pushed(t), d)
      /\ EdgeDone(t, sdist[t])

\* CasStep that stores without comparing with oldDist.
CasNoCompare(t) ==
  /\ pc[t] = "cas"
  /\ Cas
  /\ WriteAndPush(t)
  /\ UNCHANGED << converter, WLEmptyWork, popped, config, prev, phase, serialInitial, seedTodo, exitCode >>

\* CasStep whose compare-and-swap never goes through.
CasNeverSucceeds(t) ==
  /\ pc[t] = "cas"
  /\ Cas
  /\ SetLocals(t, Retry(Kind), req[t], ii[t], sdist[t], newDist[t], 0)
  /\ UNCHANGED << BadWork, dist, inSet, worklist, initial >>
  /\ UNCHANGED << converter, WLEmptyWork, popped, config, prev, phase, serialInitial, seedTodo, exitCode >>

\* relaxEdge with UseCas: compare-and-swap of ddata.dist from oldDist to
\* newDist.
CasStep(t) ==
  /\ pc[t] = "cas"
  /\ Cas
  /\ IF dist[Dst(t)] = oldDist[t]
       THEN WriteAndPush(t)
       ELSE /\ SetLocals(t, Retry(Kind), req[t], ii[t], sdist[t], newDist[t], 0)
            /\ UNCHANGED << BadWork, dist, inSet, worklist, initial >>
  /\ UNCHANGED << converter, WLEmptyWork, popped, config, prev, phase, serialInitial, seedTodo, exitCode >>

\* compare_exchange_weak (AsyncAlgo, AsyncAlgoPP) may fail although the
\* value is the expected one.
CasSpurious(t) ==
  /\ pc[t] = "cas"
  /\ Cas
  /\ Kind \in {"AsyncAlgo", "AsyncAlgoPP"}
  /\ dist[Dst(t)] = oldDist[t]
  /\ SetLocals(t, Retry(Kind), req[t], ii[t], sdist[t], newDist[t], 0)
  /\ UNCHANGED << converter, stats, config, prev, phase, dist, inSet, worklist, initial, serialInitial,
                  seedTodo, exitCode >>

\* relaxEdge without UseCas: ddata.dist = newDist, unconditionally.
StoreStep(t) ==
  /\ pc[t] = "cas"
  /\ ~Cas
  /\ WriteAndPush(t)
  /\ UNCHANGED << converter, WLEmptyWork, popped, config, prev, phase, serialInitial, seedTodo, exitCode >>

\* Terminate that looks at the work list alone.
TerminateEarly ==
  /\ phase = "run"
  /\ WLEmpty
  /\ phase' = "verify"
  /\ UNCHANGED << converter, stats, config, prev, dist, inSet, worklist, initial, serialInitial,
                  seedTodo, locals, exitCode >>

\* for_each_local returns: the work list is empty and no thread is in the
\* operator.
Terminate ==
  /\ phase = "run"
  /\ WLEmpty
  /\ AllIdle
  /\ phase' = "verify"
  /\ UNCHANGED << converter, stats, config, prev, dist, inSet, worklist, initial, serialInitial,
                  seedTodo, locals, exitCode >>

\* not_consistent: an out-edge of n that can still be relaxed.
not_consistent(g, d, n) ==
  /\ d[n] # DIST_INFINITY
  /\ \E i \in 1..Degree(g, n) : d[EdgeDst(g, n, i)] > DistAdd(d[n], EdgeData(g, n, i))

\* not_visited
not_visited(d, n) == d[n] >= DIST_INFINITY

\* verify that fails on a node left at INF.
verifyStrict(g, d, source) ==
  /\ d[source] = 0
  /\ ~ \E n \in Nodes(g) : not_visited(d, n)
  /\ ~ \E n \in Nodes(g) : not_consistent(g, d, n)

\* verify without the test of the source's distance.
verifyAnySource(g, d, source) ==
  ~ \E n \in Nodes(g) : not_consistent(g, d, n)

\* verify()
verify(g, d, source) ==
  /\ d[source] = 0
  /\ ~ \E n \in Nodes(g) : not_consistent(g, d, n)

\* run(): verify, then "Verification successful" or GALOIS_DIE.
Verify ==
  /\ phase = "verify"
  /\ phase' = "done"
  /\ exitCode' = IF verify(graph, dist, startNode) THEN "ok" ELSE "die"
  /\ UNCHANGED << converter, stats, config, prev, dist, inSet, worklist, initial, serialInitial,
                  seedTodo, locals >>

WorkerStep(t) ==
  \/ SeedClaim(t)
  \/ Pop(t)
  \/ Gate(t)
  \/ Check(t)
  \/ Arg(t)
  \/ Read(t)
  \/ Reread(t)
  \/ CasStep(t)
  \/ CasSpurious(t)
  \/ StoreStep(t)

Next ==
  \/ UnknownAlgorithm
  \/ Initialize
  \/ InitializeDist
  \/ BeginOperator
  \/ SerialStep
  \/ StartForEach
  \/ Terminate
  \/ Verify
  \/ \E t \in Workers : WorkerStep(t)

Spec == Init /\ [][Next]_vars

\* --------------------------------------------------------------- reference
\* Path lengths in the integers, not in Dist: what the graph says.

RECURSIVE PathEnds(_, _, _, _)
\* <<v, length>> for every simple path that extends one ending in u with
\* length len, having visited the nodes in seen.
PathEnds(g, u, len, seen) ==
  {<< u, len >>} \cup
  UNION {PathEnds(g, EdgeDst(g, u, i), len + EdgeData(g, u, i),
                  seen \cup {EdgeDst(g, u, i)}) :
           i \in {j \in 1..Degree(g, u) : EdgeDst(g, u, j) \notin seen}}

SimplePaths(g, s) == PathEnds(g, s, 0, {s})

Reachable(g, s) == {p[1] : p \in SimplePaths(g, s)}

ShortestPath(g, s, v) == MinOf({p[2] : p \in {q \in SimplePaths(g, s) : q[1] = v}})

\* Every sum the relaxation can form: a simple path, or one more edge.
PathSums(g, s) ==
  {p[2] : p \in SimplePaths(g, s)} \cup
  UNION {{p[2] + EdgeData(g, p[1], i) : i \in 1..Degree(g, p[1])} :
           p \in SimplePaths(g, s)}

\* All path sums are below INF: no sum overflows or meets the sentinel.
NoOverflow(g, s) == \A x \in PathSums(g, s) : x < DIST_INFINITY

Terminated == phase \in {"verify", "done"}

Parallel == Kind \in {"AsyncAlgo", "AsyncSetAlgo", "AsyncAlgoPP"}

\* ------------------------------------------------------- repeated execution

\* The --algo values that differ from a in the scheduler alone: the same
\* operator, the same UseCas, the same kind of work-set.
SchedulerVariants(a) ==
  {b \in Algos : /\ AlgoKind(b) = AlgoKind(a)
                 /\ UseCas(b) = UseCas(a)
                 /\ SetKind(WorkList(b)) = SetKind(WorkList(a))}

\* main() once more, on the same graph and source, with the same operator
\* and any scheduler and delta; what the first execution ended with is kept.
Rerun ==
  /\ phase = "done"
  /\ prev = << >>
  /\ prev' = << [algo |-> algo, stepShift |-> stepShift, dist |-> dist,
                 exitCode |-> exitCode] >>
  /\ algo' \in SchedulerVariants(algo)
  /\ stepShift' \in StepShifts
  /\ shiftCount' \in ShiftCounts(stepShift')
  /\ phase' = "start"
  /\ exitCode' = "running"
  /\ BadWork' = 0
  /\ WLEmptyWork' = 0
  /\ popped' = 0
  /\ UNCHANGED << converter, graph, startNode, reportNode, dist, inSet, worklist, initial,
                  serialInitial, seedTodo, locals >>

\* Executions that start with delta = 0 on valid nodes.
RerunInit ==
  /\ Init
  /\ stepShift = 0
  /\ startNode < NumNodes(graph)
  /\ reportNode < NumNodes(graph)
  /\ dist = [v \in Nodes(graph) |-> 0]

RerunSpec == RerunInit /\ [][Next \/ Rerun]_vars

\* ----------------------------------------------------------------- fairness
\* The threads are scheduled fairly, the driver proceeds, and a weak
\* compare-and-swap that is retried does not fail spuriously forever.

Driver ==
  \/ UnknownAlgorithm
  \/ Initialize
  \/ InitializeDist
  \/ BeginOperator
  \/ SerialStep
  \/ StartForEach
  \/ Terminate
  \/ Verify

Fairness ==
  /\ WF_vars(Driver)
  /\ \A t \in Workers : WF_vars(WorkerStep(t)) /\ SF_vars(CasStep(t))

\* Executions with the default delta, from zeroed memory.
LiveInit ==
  /\ Init
  /\ stepShift = 10
  /\ reportNode = 1
  /\ dist = [v \in Nodes(graph) |-> 0]

LiveSpec == LiveInit /\ [][Next]_vars /\ Fairness

\* -------------------------------------------------------- dist-graph-convert
\* tools/dist-graph-convert/dist-graph-convert-helpers.h: every host has
\* loaded a part of the edge list; sendEdgeCounts announces to every other
\* host how many edges it will get, sendAssignedEdges sends every edge to the
\* owner of its source, receiveAssignedEdges takes in the edges of the others.
\* Sizes are counted in 32-bit words.

\* The size a send buffer must exceed to be sent during Pass2 (1400 bytes in
\* the program).
BufferLimit == 6

\* An input is the mapping hostToNodes (for host h, at index h+1, the range
\* <<first, second>> of the nodes it owns) and for every host the edges
\* <<src, dst, data>> it has loaded, in the order of its buffer.
TwoHosts ==
  [hostToNodes |-> << << 0, 2 >>, << 2, 4 >> >>,
   edges |-> << << << 2, 0, 7 >>, << 3, 1, 8 >>, << 2, 1, 9 >> >>,
                << << 0, 3, 5 >>, << 2, 3, 6 >> >> >>]

Uneven ==
  [hostToNodes |-> << << 0, 1 >>, << 1, 4 >> >>,
   edges |-> << << << 1, 0, 4 >>, << 1, 2, 5 >>, << 0, 1, 6 >> >>,
                << << 0, 0, 7 >>, << 3, 1, 8 >> >> >>]

ThreeHosts ==
  [hostToNodes |-> << << 0, 1 >>, << 1, 2 >>, << 2, 3 >> >>,
   edges |-> << << << 1, 0, 4 >>, << 2, 0, 5 >> >>,
                << << 0, 1, 6 >> >>,
                << >> >>]

\* Host 0 has loaded two edges of its own node 0.
SharedSource ==
  [hostToNodes |-> << << 0, 2 >>, << 2, 3 >> >>,
   edges |-> << << << 0, 1, 4 >>, << 0, 0, 5 >> >>,
                << << 0, 2, 6 >> >> >>]

Distributions == << TwoHosts, Uneven, ThreeHosts, SharedSource >>

HostToNodes == Distributions[distribution].hostToNodes

NumHosts == Len(HostToNodes)

Hosts == 0..(NumHosts - 1)

\* The number of nodes host h owns.
NumLocalNodes(h) == HostToNodes[h + 1][2] - HostToNodes[h + 1][1]

RECURSIVE Flatten(_, _)
\* The buffer an edge list is loaded into: src, dst and, with data, the
\* data of every edge in turn.
Flatten(edges, wd) ==
  IF edges = << >> THEN << >>
  ELSE (IF wd THEN Head(edges) ELSE << Head(edges)[1], Head(edges)[2] >>)
         \o Flatten(Tail(edges), wd)

\* localEdges of host h.
LocalEdges(h) == Flatten(Distributions[distribution].edges[h + 1], withData)

\* The elements an edge takes in the buffer.
EdgeWidth == IF withData THEN 3 ELSE 2

\* getNumEdges<EdgeDataTy>
getNumEdges(edgeVector) == Len(edgeVector) \div EdgeWidth

\* findOwner: the host whose range holds gID, or -1.
findOwner(gID, ownerMapping) ==
  IF \E h \in 1..Len(ownerMapping) :
       ownerMapping[h][1] <= gID /\ gID < ownerMapping[h][2]
    THEN (CHOOSE h \in 1..Len(ownerMapping) :
            ownerMapping[h][1] <= gID /\ gID < ownerMapping[h][2]) - 1
    ELSE -1

\* The edge at edgeIndex (from 0) of host h, as the lambdas of
\* sendEdgeCounts and sendAssignedEdges read it.
EdgeAt(h, edgeIndex) ==
  LET src == LocalEdges(h)[edgeIndex * EdgeWidth + 1]
      edgeOwner == findOwner(src, HostToNodes)
  IN  [src |-> src,
       edgeOwner |-> edgeOwner,
       dst |-> LocalEdges(h)[edgeIndex * EdgeWidth + 2],
       localID |-> src - HostToNodes[edgeOwner + 1][1],
       edgeData |-> IF withData THEN LocalEdges(h)[edgeIndex * EdgeWidth + 3] ELSE 0]

\* numEdgesPerHost counted by the owner of the destination.
numEdgesPerHostByDst(h, o) ==
  Cardinality({i \in 0..(getNumEdges(LocalEdges(h)) - 1) :
                 findOwner(EdgeAt(h, i).dst, HostToNodes) = o})

\* sendEdgeCounts: numEdgesPerHost[o] after the do_all of host h.
numEdgesPerHost(h, o) ==
  Cardinality({i \in 0..(getNumEdges(LocalEdges(h)) - 1) : EdgeAt(h, i).edgeOwner = o})

\* gSerialize(buffer, globalSourceID, dstVector[, dataVector]): the record.
Serialized(globalSourceID, dstVector, dataVector) ==
  [src |-> globalSourceID, dst |-> dstVector, data |-> dataVector]

\* The size of a record: the source id and the length of each vector take
\* two words, every element one.
RecordSize(r) ==
  2 + 2 + Len(r.dst) + (IF withData THEN 2 + Len(r.data) ELSE 0)

RECURSIVE BufferSize(_)
BufferSize(b) == IF b = << >> THEN 0 ELSE RecordSize(Head(b)) + BufferSize(Tail(b))

\* The ways do_all (steal<false>) splits the indices 0..n-1 into one
\* contiguous block per thread.
Cuts(n) ==
  {c \in [0..NumWorkers -> 0..n] :
     /\ c[0] = 0
     /\ c[NumWorkers] = n
     /\ \A t \in Workers : c[t - 1] <= c[t]}

BlockOf(c, t) == [k \in 1..(c[t] - c[t - 1]) |-> c[t - 1] + k - 1]

\* An edges message of host h for host o.
EdgesMessage(h, o, b) == [from |-> h, to |-> o, tag |-> "edges", count |-> 0, records |-> b]

\* A count message of host h for host o.
CountMessage(h, o) ==
  [from |-> h, to |-> o, tag |-> "count", count |-> numEdgesPerHost(h, o),
   records |-> << >>]

\* Sequence q without its element at index i.
RemoveAt(q, i) == SubSeq(q, 1, i - 1) \o SubSeq(q, i + 1, Len(q))

\* The single-source shortest paths program is not running.
SsspIdle ==
  /\ algo = "serial"
  /\ graph = 1
  /\ startNode = 0
  /\ reportNode = 1
  /\ stepShift = 0
  /\ shiftCount = 0
  /\ phase = "off"
  /\ dist = [v \in Nodes(graph) |-> 0]
  /\ inSet = [v \in Nodes(graph) |-> FALSE]
  /\ wset = {}
  /\ initial = [t \in Workers |-> << >>]
  /\ serialInitial = {}
  /\ seedTodo = {}
  /\ wl = [t \in Workers |-> << >>]
  /\ cur = [t \in Workers |-> 0]
  /\ pc = [t \in Workers |-> "idle"]
  /\ req = [t \in Workers |-> NoReq]
  /\ ii = [t \in Workers |-> 0]
  /\ sdist = [t \in Workers |-> 0]
  /\ newDist = [t \in Workers |-> 0]
  /\ oldDist = [t \in Workers |-> 0]
  /\ exitCode = "running"
  /\ prev = << >>
  /\ BadWork = 0
  /\ WLEmptyWork = 0
  /\ popped = 0

sssp ==
  << algo, graph, startNode, reportNode, stepShift, shiftCount, phase, dist,
     inSet, wset, initial, serialInitial, seedTodo, wl, cur, pc, req, ii, sdist,
     newDist, oldDist, exitCode, prev, stats >>

\* Every host has loaded its edges and is about to call sendEdgeCounts.
ConverterInit ==
  /\ distribution \in 1..Len(Distributions)
  /\ withData \in BOOLEAN
  /\ hostPhase = [h \in Hosts |-> "sendEdgeCounts"]
  /\ edgesToSend = [h \in Hosts |-> [t \in Workers |-> << >>]]
  /\ lastSourceSent = [h \in Hosts |-> [t \in Workers |-> [o \in Hosts |-> 0]]]
  /\ dstVectors = [h \in Hosts |-> [t \in Workers |-> [o \in Hosts |-> << >>]]]
  /\ dataVectors = [h \in Hosts |-> [t \in Workers |-> [o \in Hosts |-> << >>]]]
  /\ sendBuffers = [h \in Hosts |-> [t \in Workers |-> [o \in Hosts |-> << >>]]]
  /\ cleaned = [h \in Hosts |-> {}]
  /\ net = << >>
  /\ countsToReceive = [h \in Hosts |-> NumHosts - 1]
  /\ edgesToReceive = [h \in Hosts |-> 0]
  /\ localSrcToDest = [h \in Hosts |-> [i \in 0..(NumLocalNodes(h) - 1) |-> << >>]]
  /\ localSrcToData = [h \in Hosts |-> << >>]
  /\ nodeLocks = [h \in Hosts |-> [i \in 0..(NumLocalNodes(h) - 1) |-> 0]]
  /\ savePc = [h \in Hosts |-> [t \in Workers |-> "edge"]]
  /\ SsspIdle

RECURSIVE CountMessages(_, _)
\* sendEdgeCounts, the loop over the hosts from o on: one message for every
\* host but the sender.
CountMessages(h, o) ==
  IF o >= NumHosts THEN << >>
  ELSE (IF o = h THEN << >> ELSE << CountMessage(h, o) >>) \o CountMessages(h, o + 1)

\* sendEdgeCounts
SendEdgeCounts(h) ==
  /\ h \in Hosts
  /\ hostPhase[h] = "sendEdgeCounts"
  /\ net' = net \o CountMessages(h, 0)
  /\ hostPhase' = [hostPhase EXCEPT ![h] = "receiveEdgeCounts"]
  /\ UNCHANGED << distribution, withData, locking, perThread, countsToReceive, edgesToReceive,
                  localSrcToDest, localSrcToData, sssp >>

\* receiveEdgeCounts: one count message is taken in and added up.
ReceiveEdgeCounts(h) ==
  /\ h \in Hosts
  /\ hostPhase[h] = "receiveEdgeCounts"
  /\ countsToReceive[h] > 0
  /\ \E i \in 1..Len(net) :
       /\ net[i].to = h
       /\ net[i].tag = "count"
       /\ edgesToReceive' = [edgesToReceive EXCEPT ![h] = @ + net[i].count]
       /\ net' = RemoveAt(net, i)
  /\ countsToReceive' = [countsToReceive EXCEPT ![h] = @ - 1]
  /\ UNCHANGED << distribution, withData, locking, hostPhase, perThread, localSrcToDest,
                  localSrcToData, sssp >>

\* sendAssignedEdges up to Pass2: with edge data localSrcToData gets a vector
\* for every local node; lastSourceSent is 0; do_all splits the edges.
BeginSend(h) ==
  /\ h \in Hosts
  /\ hostPhase[h] = "receiveEdgeCounts"
  /\ countsToReceive[h] = 0
  /\ hostPhase' = [hostPhase EXCEPT ![h] = "Pass2"]
  /\ localSrcToData' =
       [localSrcToData EXCEPT ![h] =
          IF withData THEN [i \in 0..(NumLocalNodes(h) - 1) |-> << >>] ELSE @]
  /\ lastSourceSent' = [lastSourceSent EXCEPT ![h] = [t \in Workers |-> [o \in Hosts |-> 0]]]
  /\ \E c \in Cuts(getNumEdges(LocalEdges(h))) :
       edgesToSend' = [edgesToSend EXCEPT ![h] = [t \in Workers |-> BlockOf(c, t)]]
  /\ UNCHANGED << distribution, withData, locking, dstVectors, dataVectors, sendBuffers, cleaned,
                  net, countsToReceive, edgesToReceive, localSrcToDest, sssp >>

\* The record of what thread t of host h has collected for owner o.
Collected(h, t, o) ==
  Serialized(lastSourceSent[h][t][o] + HostToNodes[o + 1][1],
             dstVectors[h][t][o], dataVectors[h][t][o])

\* SendOff without the serialization of the destinations collected for the
\* previous source.
SendOffDrop(h, t, e) ==
  LET o == e.edgeOwner
      one == IF withData THEN << e.edgeData >> ELSE << >>
  IN  IF lastSourceSent[h][t][o] = e.localID
        THEN [last |-> lastSourceSent[h][t][o],
              dst |-> Append(dstVectors[h][t][o], e.dst),
              data |-> dataVectors[h][t][o] \o one,
              buf |-> sendBuffers[h][t][o],
              out |-> << >>]
        ELSE [last |-> e.localID,
              dst |-> << e.dst >>,
              data |-> one,
              buf |-> sendBuffers[h][t][o],
              out |-> << >>]

\* Pass2, the branch edgeOwner != hostID for edge e: the thread's storage for
\* the owner afterwards, and the messages sent.
SendOff(h, t, e) ==
  LET o == e.edgeOwner
      one == IF withData THEN << e.edgeData >> ELSE << >>
  IN  IF lastSourceSent[h][t][o] = e.localID
        THEN [last |-> lastSourceSent[h][t][o],
              dst |-> Append(dstVectors[h][t][o], e.dst),
              data |-> dataVectors[h][t][o] \o one,
              buf |-> sendBuffers[h][t][o],
              out |-> << >>]
      ELSE IF Len(dstVectors[h][t][o]) > 0
        THEN LET b == Append(sendBuffers[h][t][o], Collected(h, t, o))
             IN  [last |-> e.localID,
                  dst |-> << e.dst >>,
                  data |-> one,
                  buf |-> IF BufferSize(b) > BufferLimit THEN << >> ELSE b,
                  out |-> IF BufferSize(b) > BufferLimit
                            THEN << EdgesMessage(h, o, b) >> ELSE << >>]
      ELSE [last |-> e.localID,
            dst |-> << e.dst >>,
            data |-> one,
            buf |-> sendBuffers[h][t][o],
            out |-> << >>]

\* Pass2: one iteration of the do_all of sendAssignedEdges, by thread t of
\* host h, on the next edge of its block, the edge being another host's.
Pass2(h, t) ==
  /\ h \in Hosts
  /\ hostPhase[h] = "Pass2"
  /\ edgesToSend[h][t] # << >>
  /\ LET e == EdgeAt(h, Head(edgesToSend[h][t]))
         o == e.edgeOwner
         r == SendOff(h, t, e)
     IN  /\ o # h
         /\ lastSourceSent' = [lastSourceSent EXCEPT ![h][t][o] = r.last]
         /\ dstVectors' = [dstVectors EXCEPT ![h][t][o] = r.dst]
         /\ dataVectors' = [dataVectors EXCEPT ![h][t][o] = r.data]
         /\ sendBuffers' = [sendBuffers EXCEPT ![h][t][o] = r.buf]
         /\ net' = net \o r.out
  /\ edgesToSend' = [edgesToSend EXCEPT ![h][t] = Tail(@)]
  /\ UNCHANGED << distribution, withData, locking, hostPhase, cleaned, countsToReceive,
                  edgesToReceive, localSrcToDest, localSrcToData, sssp >>

\* Thread t of host h is in Pass2 on an edge of the host's own, at position p
\* of the else branch.
Saving(h, t, p) ==
  /\ h \in Hosts
  /\ hostPhase[h] = "Pass2"
  /\ edgesToSend[h][t] # << >>
  /\ EdgeAt(h, Head(edgesToSend[h][t])).edgeOwner = h
  /\ savePc[h][t] = p

\* The local id of the source of the edge thread t of host h is on.
SavedNode(h, t) == EdgeAt(h, Head(edgesToSend[h][t])).localID

\* std::mutex: the mutex of local node l of host h is held.
Locked(h, l) == nodeLocks[h][l] # 0

\* SaveLock that does not wait for the mutex.
SaveLockAnyway(h, t) ==
  /\ Saving(h, t, "edge")
  /\ nodeLocks' = [nodeLocks EXCEPT ![h][SavedNode(h, t)] = t]
  /\ savePc' = [savePc EXCEPT ![h][t] = "dest"]
  /\ UNCHANGED << distribution, withData, hostPhase, perThread, net, countsToReceive,
                  edgesToReceive, localSrcToDest, localSrcToData, sssp >>

\* nodeLocks[localID].lock(): the thread waits until the mutex is free.
SaveLock(h, t) ==
  /\ Saving(h, t, "edge")
  /\ ~Locked(h, SavedNode(h, t))
  /\ nodeLocks' = [nodeLocks EXCEPT ![h][SavedNode(h, t)] = t]
  /\ savePc' = [savePc EXCEPT ![h][t] = "dest"]
  /\ UNCHANGED << distribution, withData, hostPhase, perThread, net, countsToReceive,
                  edgesToReceive, localSrcToDest, localSrcToData, sssp >>

\* localSrcToDest[localID].emplace_back(dst)
SaveDest(h, t) ==
  /\ Saving(h, t, "dest")
  /\ localSrcToDest' =
       [localSrcToDest EXCEPT ![h][SavedNode(h, t)] =
          Append(@, EdgeAt(h, Head(edgesToSend[h][t])).dst)]
  /\ savePc' = [savePc EXCEPT ![h][t] = IF withData THEN "data" ELSE "unlock"]
  /\ UNCHANGED << distribution, withData, hostPhase, perThread, net, countsToReceive,
                  edgesToReceive, localSrcToData, nodeLocks, sssp >>

\* localSrcToData[localID].emplace_back(edgeData)
SaveData(h, t) ==
  /\ Saving(h, t, "data")
  /\ localSrcToData' =
       [localSrcToData EXCEPT ![h][SavedNode(h, t)] =
          Append(@, EdgeAt(h, Head(edgesToSend[h][t])).edgeData)]
  /\ savePc' = [savePc EXCEPT ![h][t] = "unlock"]
  /\ UNCHANGED << distribution, withData, hostPhase, perThread, net, countsToReceive,
                  edgesToReceive, localSrcToDest, nodeLocks, sssp >>

\* nodeLocks[localID].unlock(), and the end of the iteration.
SaveUnlock(h, t) ==
  /\ Saving(h, t, "unlock")
  /\ nodeLocks' = [nodeLocks EXCEPT ![h][SavedNode(h, t)] = 0]
  /\ savePc' = [savePc EXCEPT ![h][t] = "edge"]
  /\ edgesToSend' = [edgesToSend EXCEPT ![h][t] = Tail(@)]
  /\ UNCHANGED << distribution, withData, hostPhase, lastSourceSent, dstVectors,
                  dataVectors, sendBuffers, cleaned, net, countsToReceive,
                  edgesToReceive, localSrcToDest, localSrcToData, sssp >>

\* Pass2Cleanup for owner o: the buffer of thread t after the remaining
\* destinations were serialized.
Flushed(h, t, o) ==
  IF Len(dstVectors[h][t][o]) > 0
    THEN Append(sendBuffers[h][t][o], Collected(h, t, o))
    ELSE sendBuffers[h][t][o]

RECURSIVE CleanupMessages(_, _, _)
\* Pass2Cleanup, the loop over the hosts from o on: the buffers sent.
CleanupMessages(h, t, o) ==
  IF o >= NumHosts THEN << >>
  ELSE (IF o # h /\ Flushed(h, t, o) # << >>
          THEN << EdgesMessage(h, o, Flushed(h, t, o)) >> ELSE << >>)
         \o CleanupMessages(h, t, o + 1)

\* Pass2Cleanup: thread t of host h serializes and sends what it still has.
Cleanup(h, t) ==
  /\ h \in Hosts
  /\ hostPhase[h] = "Pass2"
  /\ \A u \in Workers : edgesToSend[h][u] = << >>
  /\ t \notin cleaned[h]
  /\ net' = net \o CleanupMessages(h, t, 0)
  /\ dstVectors' =
       [dstVectors EXCEPT ![h][t] = [o \in Hosts |-> IF o = h THEN @[o] ELSE << >>]]
  /\ dataVectors' =
       [dataVectors EXCEPT ![h][t] = [o \in Hosts |-> IF o = h THEN @[o] ELSE << >>]]
  /\ sendBuffers' =
       [sendBuffers EXCEPT ![h][t] = [o \in Hosts |-> IF o = h THEN @[o] ELSE << >>]]
  /\ cleaned' = [cleaned EXCEPT ![h] = @ \cup {t}]
  /\ UNCHANGED << distribution, withData, locking, hostPhase, edgesToSend, lastSourceSent,
                  countsToReceive, edgesToReceive, localSrcToDest, localSrcToData, sssp >>

\* sendAssignedEdges returns; the host calls receiveAssignedEdges.
EndSend(h) ==
  /\ h \in Hosts
  /\ hostPhase[h] = "Pass2"
  /\ cleaned[h] = Workers
  /\ hostPhase' = [hostPhase EXCEPT ![h] = "receiveAssignedEdges"]
  /\ UNCHANGED << distribution, withData, locking, perThread, net, countsToReceive,
                  edgesToReceive, localSrcToDest, localSrcToData, sssp >>

RECURSIVE Stored(_, _, _)
\* receiveAssignedEdges: the vectors v of a host whose first node is `first`
\* after the records were appended under their local ids; data tells
\* whether the data or the destinations are stored.
Stored(v, records, field) ==
  IF records = << >> THEN v
  ELSE LET r == Head(records)
       IN  Stored([v EXCEPT ![r.local] = @ \o r[field]], Tail(records), field)

RECURSIVE NumReceived(_)
NumReceived(records) ==
  IF records = << >> THEN 0 ELSE Len(Head(records).dst) + NumReceived(Tail(records))

\* The records of a message with the local id of their source on host h.
Localized(h, records) ==
  [k \in 1..Len(records) |->
     [local |-> records[k].src - HostToNodes[h + 1][1],
      dst |-> records[k].dst,
      data |-> records[k].data]]

\* receiveAssignedEdges: one buffer is taken in; its edges are stored and
\* counted off.
ReceiveAssignedEdges(h) ==
  /\ h \in Hosts
  /\ hostPhase[h] = "receiveAssignedEdges"
  /\ edgesToReceive[h] > 0
  /\ \E i \in 1..Len(net) :
       /\ net[i].to = h
       /\ net[i].tag = "edges"
       /\ LET recs == Localized(h, net[i].records)
          IN  /\ localSrcToDest' =
                   [localSrcToDest EXCEPT ![h] = Stored(@, recs, "dst")]
              /\ localSrcToData' =
                   IF localSrcToData[h] # << >>
                     THEN [localSrcToData EXCEPT ![h] = Stored(@, recs, "data")]
                     ELSE localSrcToData
              /\ edgesToReceive' = [edgesToReceive EXCEPT ![h] = @ - NumReceived(recs)]
       /\ net' = RemoveAt(net, i)
  /\ UNCHANGED << distribution, withData, locking, hostPhase, perThread, countsToReceive, sssp >>

\* receiveAssignedEdges returns: all expected edges have arrived.
Finish(h) ==
  /\ h \in Hosts
  /\ hostPhase[h] = "receiveAssignedEdges"
  /\ edgesToReceive[h] = 0
  /\ hostPhase' = [hostPhase EXCEPT ![h] = "done"]
  /\ UNCHANGED << distribution, withData, locking, perThread, net, countsToReceive,
                  edgesToReceive, localSrcToDest, localSrcToData, sssp >>

HostStep(h) ==
  \/ SendEdgeCounts(h)
  \/ ReceiveEdgeCounts(h)
  \/ BeginSend(h)
  \/ \E t \in Workers : Pass2(h, t)
  \/ \E t \in Workers : SaveLock(h, t)
  \/ \E t \in Workers : SaveDest(h, t)
  \/ \E t \in Workers : SaveData(h, t)
  \/ \E t \in Workers : SaveUnlock(h, t)
  \/ \E t \in Workers : Cleanup(h, t)
  \/ EndSend(h)
  \/ ReceiveAssignedEdges(h)
  \/ Finish(h)

\* Every host index of some input; the hosts of the run are Hosts.
AllHosts ==
  UNION {0..(Len(Distributions[d].hostToNodes) - 1) : d \in 1..Len(Distributions)}

ConverterNext == \E h \in AllHosts : HostStep(h)

ConverterSpec == ConverterInit /\ [][ConverterNext]_vars

\* Every host proceeds and the network delivers.
ConverterFairness == \A h \in AllHosts : WF_vars(HostStep(h))

ConverterLiveSpec == ConverterInit /\ [][ConverterNext]_vars /\ ConverterFairness

\* ------------------------------------------------------------------- claims

\* An out-edge of u that could still be relaxed, in the integers.
Relaxable(d, u, i) ==
  /\ d[u] # DIST_INFINITY
  /\ d[EdgeDst(graph, u, i)] > d[u] + EdgeData(graph, u, i)

Closed(d) ==
  \A u \in Nodes(graph) : \A i \in 1..Degree(graph, u) : ~Relaxable(d, u, i)

Finite(d) == {v \in Nodes(graph) : d[v] # DIST_INFINITY}

\* C1: when a run of AsyncAlgo<true> or AsyncSetAlgo<true> has terminated on
\* a graph whose path sums are all below INF, dist[v] is the length of the
\* shortest path from the source to v for every reachable v.
C1_ShortestDistances ==
  (/\ Terminated
   /\ Kind \in {"AsyncAlgo", "AsyncSetAlgo"}
   /\ Cas
   /\ NoOverflow(graph, startNode))
    => \A v \in Reachable(graph, startNode) :
         dist[v] = ShortestPath(graph, startNode, v)

\* A CAS run on the diamond has terminated with node 3 at distance 4, the
\* shorter of its two paths.
C1_Witness ==
  /\ Terminated
  /\ algo = "asyncWithCas"
  /\ Graphs[graph] = Diamond
  /\ startNode = 0
  /\ dist[3] = 4

\* C2: when the work list is empty and no thread is in the operator, no
\* edge (u, v, w) with dist[u] != INF has dist[v] > dist[u] + w, in every
\* parallel variant and under every interleaving.
C2_RelaxationClosure == (Terminated /\ Parallel) => Closed(dist)

\* C2, for the runs it holds of: the variants with CAS, and every variant
\* on a graph whose source has no two out-edges to one node.
C2_ClosureWithCas ==
  (Terminated /\ Parallel /\ (Cas \/ Graphs[graph] # ParallelEdges)) => Closed(dist)

\* C3: at termination of every AsyncAlgo and AsyncSetAlgo configuration the
\* dist array is the one SerialAlgo computes for the graph and the source.
C3_AlgorithmEquivalence ==
  (Terminated /\ Kind \in {"AsyncAlgo", "AsyncSetAlgo"})
    => dist = SerialDist(graph, startNode)

\* C3, for the runs it holds of.
C3_EquivalenceWithCas ==
  (/\ Terminated
   /\ Kind \in {"AsyncAlgo", "AsyncSetAlgo"}
   /\ (Cas \/ Graphs[graph] # ParallelEdges))
    => dist = SerialDist(graph, startNode)

\* C4: in the variants that update distances with CAS (AsyncAlgo<true>,
\* AsyncSetAlgo<true>, AsyncAlgoPP) no step after the initialization raises
\* the dist of any node.
C4_Monotone ==
  [][(/\ phase \in {"operator", "seed", "run", "verify", "done"}
      /\ Parallel
      /\ Cas)
       => \A v \in Nodes(graph) : dist'[v] <= dist[v]]_vars

\* A thread is about to lower, by CAS, a distance that is already finite.
C4_Witness ==
  \E t \in Workers :
    /\ pc[t] = "cas"
    /\ Cas
    /\ oldDist[t] < DIST_INFINITY
    /\ dist[Dst(t)] = oldDist[t]

\* C5: every fair run of the parallel operator reaches the state in which
\* the work list is empty and no thread is in the operator.
C5_Termination ==
  (phase = "run") ~> (phase = "verify" /\ WLEmpty /\ AllIdle)

\* for_each_local has returned on the diamond, where workers had to push
\* (node 3 is reached from nodes 1 and 2 only).
C5_Witness ==
  /\ phase = "verify"
  /\ Parallel
  /\ Graphs[graph] = Diamond
  /\ startNode = 0
  /\ dist[3] = 4

\* C6: once for_each_local has returned, no item is left in any thread's
\* chunks or in the bag and no thread is inside the operator.
C6_TerminationSafe ==
  (Terminated /\ Parallel)
    => /\ WLEmpty
       /\ AllIdle
       /\ \A t \in Workers : initial[t] = << >>

\* The parallel loop has ended on a graph that needed pushes by workers.
C6_Witness ==
  /\ phase = "verify"
  /\ algo = "asyncWithCasBlindObimMSet"
  /\ Graphs[graph] = Diamond
  /\ startNode = 0
  /\ dist[3] # DIST_INFINITY

\* C7: from the moment the driver has set dist[source] = 0, dist[source] is
\* 0 in every state, whatever edges lead back to the source.
C7_SourcePinned ==
  /\ (Parallel /\ phase \in {"seed", "run", "verify", "done"})
       => dist[startNode] = 0
  /\ (~Parallel /\ Terminated) => dist[startNode] = 0

\* A thread relaxes an edge whose destination is the source: the
\* self-loop of the source, or the edge back from node 1.
C7_Witness ==
  \E t \in Workers :
    /\ pc[t] = "read"
    /\ Graphs[graph] = SourceCycle
    /\ startNode = 0
    /\ Dst(t) = startNode
    /\ newDist[t] > 0

\* C8, as claimed: at termination the nodes with dist != INF are exactly
\* the nodes reachable from the source.
C8_ReachabilityAgreement ==
  Terminated => Finite(dist) = Reachable(graph, startNode)

\* C8, amended: the same, on graphs whose path sums are all below INF.
C8_ReachabilityBelowInf ==
  (Terminated /\ NoOverflow(graph, startNode))
    => Finite(dist) = Reachable(graph, startNode)

\* A run has ended with node 1 reached and node 2, which no path from the
\* source leads to, left at INF.
C8_Witness ==
  /\ Terminated
  /\ Graphs[graph] = Disconnected
  /\ startNode = 0
  /\ dist[1] = 2
  /\ dist[2] = DIST_INFINITY

\* C9: two complete executions with the same graph, source, algorithm and
\* delta end with the same dist array.
C9_SameOutput ==
  (/\ prev # << >>
   /\ phase = "done"
   /\ algo = prev[1].algo
   /\ stepShift = prev[1].stepShift)
    => dist = prev[1].dist

\* C9, for the runs it holds of: the variants with CAS.
C9_SameOutputWithCas ==
  (/\ prev # << >>
   /\ phase = "done"
   /\ Cas
   /\ algo = prev[1].algo
   /\ stepShift = prev[1].stepShift)
    => dist = prev[1].dist

\* C10: two complete executions with the same graph, source and operator
\* that differ in delta or in the scheduler (OBIM or FIFO) end with the same
\* dist array.
C10_SchedulerIndependent ==
  (/\ prev # << >>
   /\ phase = "done"
   /\ (stepShift # prev[1].stepShift \/ WorkList(algo) # WorkList(prev[1].algo)))
    => dist = prev[1].dist

\* C10, for the runs it holds of: the variants with CAS.
C10_SchedulerIndependentWithCas ==
  (/\ prev # << >>
   /\ phase = "done"
   /\ Cas
   /\ (stepShift # prev[1].stepShift \/ WorkList(algo) # WorkList(prev[1].algo)))
    => dist = prev[1].dist

\* ------------------------------------------------------- relaxEdge, observed

\* Thread t is inside relaxEdge, past the computation of newDist.
InRelaxEdge(t) == pc[t] \in {"read", "cas", "reread"}

\* The step is one of thread t (no other thread changes its position).
StepOf(t) == pc'[t] # pc[t] \/ ii'[t] # ii[t]

\* What thread t has put into the bag and holds on the work list.
Held(bag, q, t) == Len(bag[t]) + Len(q[t])

\* The step put one item of thread t into the bag or onto the work list.
Gained(t) == Held(initial', wl', t) = Held(initial, wl, t) + 1

\* The step lowered the distance of the destination of t's edge.
Lowered(t) == dist'[Dst(t)] < dist[Dst(t)]

\* The work-set of the running loop already holds the destination.
Filtered(t) ==
  phase = "run" /\ Member(algo, [inSet |-> inSet, wset |-> wset], Dst(t))

\* What C11 says of a step of thread t inside relaxEdge.
OnePush(t) ==
  /\ Held(initial', wl', t) \in {Held(initial, wl, t), Held(initial, wl, t) + 1}
  /\ Gained(t) => Lowered(t)
  /\ Lowered(t) => (Gained(t) \/ Filtered(t))
  /\ newDist[t] >= dist[Dst(t)] => (dist' = dist /\ ~Gained(t))

\* C11: a step of relaxEdge puts an item for the destination into the queue
\* exactly when it lowered the destination's distance (a work-set may drop
\* the push of a node it holds); with newDist >= dist[dst] it writes nothing
\* and pushes nothing; no step pushes more than one item.
C11_OnePushPerImprovement ==
  [][\A t \in Workers : (InRelaxEdge(t) /\ StepOf(t)) => OnePush(t)]_vars

\* C11, for the runs it holds of: the variants with CAS, and every variant
\* on a graph whose source has no two out-edges to one node.
C11_OnePushWithCas ==
  [][\A t \in Workers :
       (InRelaxEdge(t) /\ StepOf(t) /\ (Cas \/ Graphs[graph] # ParallelEdges))
         => OnePush(t)]_vars

\* ---------------------------------------------------------------- work-sets

\* The positions of the work list that hold a token for node v.
Tokens(q, v) ==
  UNION {{<< t, i >> : i \in {j \in 1..Len(q[t]) : q[t][j].n = v}} : t \in Workers}

\* The variant runs on a work-set (marking, two-level set or hash).
UsesSet == SetKind(WLType) # "none"

\* C12: in the variants with a work-set (marking, two-level hash or set,
\* over FIFO or OBIM) the queue holds at most one token for any node, in
\* every reachable state.
C12_WorkSetUniqueness ==
  UsesSet => \A v \in Nodes(graph) : Cardinality(Tokens(wl, v)) <= 1

\* A thread is about to improve and push a node whose token is queued.
C12_Witness ==
  \E t \in Workers :
    /\ UsesSet
    /\ phase = "run"
    /\ pc[t] = "cas"
    /\ newDist[t] < dist[Dst(t)]
    /\ Tokens(wl, Dst(t)) # {}

\* C13: in the variants with a work-set a node is in the set exactly while
\* its token is queued: it has left the set when its operator starts to read
\* distances, so an improvement that lands afterwards queues the node again;
\* and no run ends with a node that was improved and has an out-edge that
\* could still be relaxed from the node's final distance.
C13_NoLostImprovement ==
  UsesSet =>
    /\ phase = "run" =>
         \A v \in Nodes(graph) :
           Member(algo, [inSet |-> inSet, wset |-> wset], v) <=> Tokens(wl, v) # {}
    /\ Terminated =>
         \A v \in Nodes(graph) \ {startNode} :
           \A i \in 1..Degree(graph, v) : ~Relaxable(dist, v, i)

\* While one thread scans the out-edges of a node, another is about to
\* improve that node and push it.
C13_Witness ==
  \E t, o \in Workers :
    /\ UsesSet
    /\ phase = "run"
    /\ t # o
    /\ pc[t] \in {"arg", "read", "cas"}
    /\ pc[o] = "cas"
    /\ Dst(o) = Src(t)
    /\ dist[Dst(o)] = oldDist[o]
    /\ Tokens(wl, Src(t)) = {}

\* What C14 says of a step of thread t that writes and pushes its
\* destination inside the running loop.
PushSemantics(t) ==
  IF Filtered(t)
    THEN /\ wl' = wl
         /\ wset' = wset
         /\ inSet' = inSet
    ELSE /\ Gained(t)
         /\ Member(algo, [inSet |-> inSet', wset |-> wset'], Dst(t))
         /\ wl'[t] = Append(wl[t], wl'[t][Len(wl'[t])])
         /\ wl'[t][Len(wl'[t])].n = Dst(t)

\* C14: in the variants with a work-set, a push of a node that is a member
\* of the set leaves the queue and the set unchanged; a push of a node that
\* is not a member (it never was, or a pop removed it) queues the node and
\* makes it a member.
C14_PushSemantics ==
  [][\A t \in Workers :
       (/\ UsesSet
        /\ phase = "run"
        /\ InRelaxEdge(t)
        /\ StepOf(t)
        /\ dist' # dist)
         => PushSemantics(t)]_vars

\* A node is queued again while the thread that popped it is still in its
\* operator.
C14_Witness ==
  \E o \in Workers :
    /\ UsesSet
    /\ phase = "run"
    /\ pc[o] # "idle"
    /\ Tokens(wl, Src(o)) # {}

\* The run is one of AsyncSetAlgo<false> on a work-set, past the
\* initialization of the distances.
PlainSetRun ==
  /\ Kind = "AsyncSetAlgo"
  /\ ~Cas
  /\ UsesSet
  /\ phase \in {"seed", "run", "verify"}

\* What C15 says of a step: no distance is raised, and a run that has ended
\* has the shortest distances.
SafeStep ==
  /\ \A v \in Nodes(graph) : dist'[v] <= dist[v]
  /\ (Terminated /\ NoOverflow(graph, startNode))
       => \A v \in Reachable(graph, startNode) :
            dist[v] = ShortestPath(graph, startNode, v)

\* C15: in AsyncSetAlgo<false> with MSet, HSet or OSet the plain
\* read-check-write of relaxEdge never replaces a distance by a larger one
\* and the run ends with the shortest distances.
C15_NonCasSetSafe == [][PlainSetRun => SafeStep]_vars

\* C15, for the runs it holds of: graphs whose source has no two out-edges
\* to one node, where all concurrent writers of a node are operators of the
\* loop and hold the node's lock.
C15_SafeInsideLoop ==
  [][(PlainSetRun /\ Graphs[graph] # ParallelEdges) => SafeStep]_vars

\* ---------------------------------------------------------------- requests

\* The requests (node, proposed distance) thread t has in the bag, holds on
\* the work list, or is processing.
Requests(t) ==
  {[n |-> initial[t][i].n, w |-> initial[t][i].w] : i \in 1..Len(initial[t])}
    \cup {[n |-> wl[t][i].n, w |-> wl[t][i].w] : i \in 1..Len(wl[t])}
    \cup (IF pc[t] # "idle" THEN {req[t]} ELSE {})

\* The variant queues requests (AsyncAlgo, AsyncAlgoPP), not nodes.
UsesRequests == Kind \in {"AsyncAlgo", "AsyncAlgoPP"}

\* C16: in the variants that queue requests, every request (v, w) in the
\* initial bag, in the queue or being processed has dist[v] <= w: it was
\* pushed after the write dist[v] := w.
C16_QueuedRequest ==
  UsesRequests =>
    \A t \in Workers : \A r \in Requests(t) : dist[r.n] <= r.w

\* C16, for the runs it holds of: the variants with CAS, and every variant
\* on a graph whose source has no two out-edges to one node.
C16_QueuedRequestWithCas ==
  (UsesRequests /\ (Cas \/ Graphs[graph] # ParallelEdges)) =>
    \A t \in Workers : \A r \in Requests(t) : dist[r.n] <= r.w

\* ---------------------------------------------------------------- overflow

\* The sum relaxEdge forms for thread t's edge reaches INF or more.
ReachesInf(t) == sdist[t] + Weight(t) >= DIST_INFINITY

\* C17: a call of relaxEdge whose sum dist[s] + w reaches or exceeds INF
\* treats the edge as infinite: it writes no distance and pushes nothing.
C17_OverflowSaturates ==
  [][\A t \in Workers :
       (InRelaxEdge(t) /\ StepOf(t) /\ ReachesInf(t))
         => (dist' = dist /\ ~Gained(t))]_vars

\* C17, for the sums it holds of: a sum that is INF exactly is not below
\* any distance and is never written.
C17_SumOfInf ==
  [][\A t \in Workers :
       (InRelaxEdge(t) /\ StepOf(t) /\ sdist[t] + Weight(t) = DIST_INFINITY)
         => (dist' = dist /\ ~Gained(t))]_vars

\* ----------------------------------------------------------- configuration

\* The start or the report node is not a node of the graph.
BadNode == startNode >= NumNodes(graph) \/ reportNode >= NumNodes(graph)

\* The program has stopped, or is about to stop, in initialize(): it has
\* not written a distance and does not end with exit code 0.
FailedFast ==
  /\ phase \in {"start", "aborted"}
  /\ phase = "aborted" => exitCode = "abort"
  /\ dist \in Garbage(graph)
  /\ AllIdle

\* C18: with a start or report node that is not below the number of nodes,
\* or with a negative --delta, the program stops with a nonzero exit before
\* the distances are initialized and before any relaxation; no dist value
\* is written.
C18_BadConfigFailsFast == (BadNode \/ stepShift < 0) => FailedFast

\* C18, for the configurations it holds of: a start or report node that is
\* not a node of the graph.
C18_BadNodeFailsFast == BadNode => FailedFast

\* ----------------------------------------------------------------- verifier

\* C19: the run ends with exit code 0 exactly when dist[source] = 0 and no
\* edge (u, v, w) with dist[u] != INF has dist[v] > dist[u] + w; nodes left
\* at INF do not make verify fail; when verify fails the driver dies.
C19_VerifierOutcome ==
  phase = "done" =>
    /\ exitCode \in {"ok", "die"}
    /\ exitCode = "ok" <=> (dist[startNode] = 0 /\ Closed(dist))

\* A run has passed verify with a node left at INF.
C19_Witness ==
  /\ phase = "done"
  /\ exitCode = "ok"
  /\ \E v \in Nodes(graph) : dist[v] = DIST_INFINITY

\* ---------------------------------------------------------------- push-pull

\* The local copy sdist of AsyncAlgoPP::Process as the step of thread t
\* leaves it: lowered by the pull when the edge is not relaxed.
FinalSdist(t) ==
  IF pc[t] = "read" /\ ~(newDist[t] < dist[Dst(t)])
    THEN Pull(t, dist[Dst(t)])
    ELSE sdist[t]

\* The step is the return of thread t's operator from its edge scan.
OperatorReturns(t) ==
  /\ phase = "run"
  /\ InRelaxEdge(t)
  /\ pc'[t] = "idle"

\* C20: when the operator of asyncPP returns, a local copy sdist that the
\* pull lowered below dist[req.n] has been written back: the stored distance
\* of the node is not above the local copy.
C20_PullWriteBack ==
  [][\A t \in Workers :
       (Kind = "AsyncAlgoPP" /\ OperatorReturns(t))
         => dist'[Src(t)] <= FinalSdist(t)]_vars

\* ---------------------------------------------------------------- scheduler

\* The positions of the work list q that hold entry e.
EntryPositions(q, e) ==
  UNION {{<< t, i >> : i \in {j \in 1..Len(q[t]) : q[t][j] = e}} : t \in Workers}

\* The entries of the work list q.
Entries(q) == UNION {{q[t][i] : i \in 1..Len(q[t])} : t \in Workers}

\* How many more times the step leaves entry e on the work list.
Delta(e) ==
  Cardinality(EntryPositions(wl', e)) - Cardinality(EntryPositions(wl, e))

\* The positions of the bag that hold a request for node n with distance w.
BagPositions(n, w) ==
  UNION {{<< t, i >> : i \in {j \in 1..Len(initial[t]) :
                                 initial[t][j].n = n /\ initial[t][j].w = w}} :
           t \in Workers}

\* The step of the running loop leaves the work list as it is, or adds one
\* entry for the destination of a thread in relaxEdge, or takes one entry
\* off and hands it to one idle thread, every other entry staying queued.
QueueStep ==
  LET E == Entries(wl) \cup Entries(wl')
  IN  \/ \A e \in E : Delta(e) = 0
      \/ \E x \in E :
           /\ Delta(x) = 1
           /\ \A e \in E \ {x} : Delta(e) = 0
           /\ \E t \in Workers : InRelaxEdge(t) /\ StepOf(t) /\ x.n = Dst(t)
      \/ \E x \in E :
           /\ Delta(x) = -1
           /\ \A e \in E \ {x} : Delta(e) = 0
           /\ \E t \in Workers :
                /\ pc[t] = "idle"
                /\ pc'[t] # "idle" => req'[t] = [n |-> x.n, w |-> x.w]
                /\ \A o \in Workers \ {t} : pc'[o] = pc[o] /\ req'[o] = req[o]

\* The step that starts the loop queues what the bag holds: every request
\* as often as the bag holds it, or under a work-set every node once.
FillStep ==
  IF UsesSet
    THEN {e.n : e \in Entries(wl')} =
           UNION {{initial[t][i].n : i \in 1..Len(initial[t])} : t \in Workers}
    ELSE \A t \in Workers : \A i \in 1..Len(initial[t]) :
           LET r == initial[t][i]
           IN  \E e \in Entries(wl') :
                 /\ e.n = r.n
                 /\ e.w = r.w
                 /\ Cardinality(EntryPositions(wl', e)) =
                      Cardinality(BagPositions(r.n, r.w))

\* C21: every item of the initial bag is queued when the loop starts; in the
\* loop a step changes the queue by one pushed item or by one popped item
\* that goes to exactly one thread, a steal keeping every other item queued;
\* the loop ends with no item left.
C21_SchedulerConservation ==
  [][/\ (phase = "seed" /\ phase' = "run") => FillStep
     /\ (phase = "run" /\ phase' = "run") => QueueStep
     /\ (phase = "run" /\ phase' = "verify") => Entries(wl) = {}]_vars

\* A thread with nothing of its own is idle while another holds several
\* items: its next pop steals.
C21_Witness ==
  \E t, s \in Workers :
    /\ phase = "run"
    /\ pc[t] = "idle"
    /\ wl[t] = << >>
    /\ Len(wl[s]) >= 2

\* ---- C22

\* The edges of a record, each as << src, dst, data >> (data 0 without
\* edge data).
TriplesOf(r) ==
  [k \in 1..Len(r.dst) |-> << r.src, r.dst[k], IF withData THEN r.data[k] ELSE 0 >>]

RECURSIVE TriplesIn(_)
\* The edges of a buffer.
TriplesIn(b) == IF b = << >> THEN << >> ELSE TriplesOf(Head(b)) \o TriplesIn(Tail(b))

\* How often x occurs in q.
Occurrences(x, q) == Cardinality({k \in 1..Len(q) : q[k] = x})

RECURSIVE InFlight(_, _, _, _)
\* How often edge x is in the messages of host h for host o from index i on.
InFlight(x, h, o, i) ==
  IF i > Len(net) THEN 0
  ELSE (IF net[i].tag = "edges" /\ net[i].from = h /\ net[i].to = o
          THEN Occurrences(x, TriplesIn(net[i].records)) ELSE 0)
         + InFlight(x, h, o, i + 1)

RECURSIVE HeldFrom(_, _, _, _)
\* How often edge x is in the destination vectors and send buffers for
\* host o of the threads t, t+1, ... of host h.
HeldFrom(x, h, o, t) ==
  IF t > NumWorkers THEN 0
  ELSE Occurrences(x, TriplesOf(Collected(h, t, o)) \o TriplesIn(sendBuffers[h][t][o]))
         + HeldFrom(x, h, o, t + 1)

RECURSIVE Carried(_, _, _)
\* How often edge x is on its way to host o: in the vectors and buffers of
\* the hosts h, h+1, ... and in their messages.
Carried(x, o, h) ==
  IF h >= NumHosts THEN 0
  ELSE (IF h = o THEN 0 ELSE InFlight(x, h, o, 1) + HeldFrom(x, h, o, 1))
         + Carried(x, o, h + 1)

\* How often edge x is in the storage of host o.
Kept(x, o) ==
  LET l == x[1] - HostToNodes[o + 1][1]
  IN  IF l \notin DOMAIN localSrcToDest[o] THEN 0
      ELSE Cardinality({k \in 1..Len(localSrcToDest[o][l]) :
             /\ localSrcToDest[o][l][k] = x[2]
             /\ IF withData
                  THEN /\ k \in DOMAIN localSrcToData[o][l]
                       /\ localSrcToData[o][l][k] = x[3]
                  ELSE x[3] = 0})

\* The edge indices host h has been through in Pass2: those whose iteration
\* is over, and those of its own that a thread has saved and is to unlock.
Passed(h) ==
  IF hostPhase[h] \in {"sendEdgeCounts", "receiveEdgeCounts"} THEN {}
  ELSE {i \in 0..(getNumEdges(LocalEdges(h)) - 1) :
          \A t \in Workers : \A k \in 1..Len(edgesToSend[h][t]) :
            edgesToSend[h][t][k] = i => (k = 1 /\ savePc[h][t] = "unlock")}

EdgeTriple(h, i) == << EdgeAt(h, i).src, EdgeAt(h, i).dst, EdgeAt(h, i).edgeData >>

\* How often edge x is among the edges the hosts have been through.
Handled(x) ==
  Cardinality({hi \in UNION {{<< h, i >> : i \in Passed(h)} : h \in Hosts} :
                 EdgeTriple(hi[1], hi[2]) = x})

\* Every edge the input could hold.
GlobalIds == 0..(HostToNodes[NumHosts][2] - 1)

DataValues ==
  {0} \cup UNION {{Distributions[distribution].edges[h + 1][k][3] :
                     k \in 1..Len(Distributions[distribution].edges[h + 1])} : h \in Hosts}

AllTriples == GlobalIds \X GlobalIds \X DataValues

\* Whatever is collected, buffered or sent for a host has a source that host
\* owns.
WellAddressed ==
  /\ \A h \in Hosts : \A t \in Workers : \A o \in Hosts \ {h} :
       /\ dstVectors[h][t][o] # << >>
            => findOwner(Collected(h, t, o).src, HostToNodes) = o
       /\ Len(dataVectors[h][t][o]) = (IF withData THEN Len(dstVectors[h][t][o]) ELSE 0)
       /\ \A k \in 1..Len(sendBuffers[h][t][o]) :
            findOwner(sendBuffers[h][t][o][k].src, HostToNodes) = o
  /\ \A i \in 1..Len(net) : \A k \in 1..Len(net[i].records) :
       /\ net[i].from # net[i].to
       /\ findOwner(net[i].records[k].src, HostToNodes) = net[i].to

\* C22: every edge a host has been through in Pass2 is, as often as the
\* host met it, either in the storage of its owner (destination and data
\* under the local id of its source) or on its way to the owner under its
\* global source id: in a destination vector, a send buffer or a message for
\* the owner; once a thread has run the cleanup its destination vectors,
\* data vectors and send buffers are empty.
C22_EdgeConservation ==
  /\ \A x \in AllTriples :
       LET o == findOwner(x[1], HostToNodes)
       IN  Handled(x) = Kept(x, o) + Carried(x, o, 0)
  /\ WellAddressed
  /\ \A h \in Hosts : \A t \in cleaned[h] : \A o \in Hosts :
       /\ dstVectors[h][t][o] = << >>
       /\ dataVectors[h][t][o] = << >>
       /\ sendBuffers[h][t][o] = << >>

\* A host that sent a full buffer in the middle of Pass2 while a host kept an
\* edge of its own.
C22_Witness ==
  /\ withData
  /\ \E h \in Hosts :
       /\ hostPhase[h] = "Pass2"
       /\ cleaned[h] = {}
       /\ \E i \in 1..Len(net) : net[i].tag = "edges" /\ net[i].from = h
  /\ \E h \in Hosts : \E l \in DOMAIN localSrcToDest[h] :
       /\ hostPhase[h] = "Pass2"
       /\ localSrcToDest[h][l] # << >>

\* ---- C23

RECURSIVE SentFrom(_, _, _)
\* The number of edges in the messages of host a for host b from index i on.
SentFrom(a, b, i) ==
  IF i > Len(net) THEN 0
  ELSE (IF net[i].tag = "edges" /\ net[i].from = a /\ net[i].to = b
          THEN NumReceived(net[i].records) ELSE 0)
         + SentFrom(a, b, i + 1)

RECURSIVE PendingFrom(_, _, _)
\* The number of edges for host b in the destination vectors and send
\* buffers of the threads t, t+1, ... of host a.
PendingFrom(a, b, t) ==
  IF t > NumWorkers THEN 0
  ELSE Len(dstVectors[a][t][b]) + NumReceived(sendBuffers[a][t][b])
         + PendingFrom(a, b, t + 1)

\* The number of edges of host a for host b that Pass2 has not come to.
Ahead(a, b) ==
  Cardinality({i \in 0..(getNumEdges(LocalEdges(a)) - 1) :
                 i \notin Passed(a) /\ EdgeAt(a, i).edgeOwner = b})

RECURSIVE OwnedFrom(_, _)
\* The number of edges the hosts a, a+1, ... hold of host b's nodes.
OwnedFrom(b, a) ==
  IF a >= NumHosts THEN 0 ELSE numEdgesPerHost(a, b) + OwnedFrom(b, a + 1)

RECURSIVE StoredFrom(_, _)
\* The number of edges in the storage of host b for its nodes l, l+1, ...
StoredFrom(b, l) ==
  IF l >= NumLocalNodes(b) THEN 0 ELSE Len(localSrcToDest[b][l]) + StoredFrom(b, l + 1)

Receiving(b) == hostPhase[b] \in {"receiveAssignedEdges", "done"}

\* The handshake in a state: a count message of a for b announces as many
\* edges as a has for b; while b has not begun to receive, these are the
\* edges a has yet to pass, has collected or has sent to b, so that after
\* a's cleanup exactly the announced number is in a's messages for b; once b
\* receives, its counter is the number of its edges that have not arrived,
\* and b has left receiveAssignedEdges only with the counter at zero.
C23_Handshake ==
  /\ \A i \in 1..Len(net) :
       net[i].tag = "count" => net[i].count = numEdgesPerHost(net[i].from, net[i].to)
  /\ \A a \in Hosts : \A b \in Hosts \ {a} :
       ~Receiving(b) =>
          /\ Ahead(a, b) + PendingFrom(a, b, 1) + SentFrom(a, b, 1) = numEdgesPerHost(a, b)
          /\ Receiving(a) => SentFrom(a, b, 1) = numEdgesPerHost(a, b)
  /\ \A b \in Hosts :
       /\ Receiving(b) => edgesToReceive[b] + StoredFrom(b, 0) = OwnedFrom(b, 0)
       /\ hostPhase[b] = "done" => edgesToReceive[b] = 0

\* Every host has left receiveAssignedEdges, having received from another
\* host.
C23_AllExited ==
  /\ \A b \in Hosts : hostPhase[b] = "done" /\ edgesToReceive[b] = 0
  /\ \E a \in Hosts : \E b \in Hosts \ {a} : numEdgesPerHost(a, b) > 0

\* C23: the count host a announces to host b is the number of edges a then
\* sends to b, the expected-edge counter of every host reaches exactly zero,
\* and every host eventually leaves receiveAssignedEdges.
C23_EdgeCountHandshake == [](C23_Handshake) /\ <>[](C23_AllExited)

\* Every host has left receiveAssignedEdges and some host has counted edges
\* of other hosts down to zero.
C23_Witness ==
  /\ \A b \in Hosts : hostPhase[b] = "done" /\ edgesToReceive[b] = 0
  /\ \E b \in Hosts : OwnedFrom(b, 0) > numEdgesPerHost(b, b)

\* ---- C24

CarriesRequests == Kind \in {"AsyncAlgo", "AsyncAlgoPP"}

\* Thread t is at the gate with a request that has been superseded.
Superseded(t) ==
  /\ phase = "run"
  /\ CarriesRequests
  /\ pc[t] = "gate"
  /\ req[t].w # dist[Src(t)]

\* C24: when thread t of AsyncAlgo or AsyncAlgoPP passes the gate with a
\* request (v, w) and w # dist[v], the operator returns: it starts on no
\* out-edge, no dist changes, nothing is pushed and EmptyWork grows by one.
C24_EmptyWorkGate ==
  [][\A t \in Workers :
       (Superseded(t) /\ pc'[t] # pc[t]) =>
          /\ pc'[t] = "idle"
          /\ req'[t] = NoReq
          /\ ii'[t] = 0
          /\ dist' = dist
          /\ wl' = wl
          /\ wset' = wset
          /\ inSet' = inSet
          /\ initial' = initial
          /\ BadWork' = BadWork
          /\ WLEmptyWork' = WLEmptyWork + 1]_vars

\* The one request popped so far was dropped at the gate.
C24_Witness ==
  /\ phase = "run"
  /\ CarriesRequests
  /\ AllIdle
  /\ popped = 1
  /\ WLEmptyWork = 1

\* ---- C25

\* The threads that are processing a popped request.
InOperator == IF phase = "run" THEN {t \in Workers : pc[t] # "idle"} ELSE {}

\* EmptyWork grows by one, in the step in which the processing of a request
\* ends at the gate or at the head of the loop.
CountsOnce ==
  WLEmptyWork' # WLEmptyWork =>
     /\ WLEmptyWork' = WLEmptyWork + 1
     /\ \E t \in Workers :
          /\ pc[t] \in {"gate", "check"}
          /\ req[t].w # dist[Src(t)]
          /\ pc'[t] = "idle"
          /\ req'[t] = NoReq

\* C25: in AsyncAlgo EmptyWork grows only by one and only as the processing
\* of a request ends, so a request is counted at most once, whether it was
\* found superseded before the scan or in the middle of it; EmptyWork never
\* exceeds the popped requests whose processing ended, hence never the
\* popped requests.
C25_PerRequestEmptyWork ==
  /\ [](Kind = "AsyncAlgo" =>
          /\ WLEmptyWork + Cardinality(InOperator) <= popped
          /\ WLEmptyWork <= popped)
  /\ [][Kind = "AsyncAlgo" => CountsOnce]_vars

\* A request that passed the gate and an out-edge is found superseded at
\* the head of the loop, not having been counted.
C25_Witness ==
  /\ Kind = "AsyncAlgo"
  /\ WLEmptyWork + 1 <= popped
  /\ \E t \in Workers :
       /\ pc[t] = "check"
       /\ ii[t] > 1
       /\ req[t].w # dist[Src(t)]

\* ---- C26

\* AsyncAlgo::relaxNode is running.
InRelaxNode == Kind = "AsyncAlgo" /\ phase = "run"

\* The step of thread t at the head of the loop: the source distance is read
\* again; if it differs from req.w the scan is over and nothing else
\* changes, otherwise relaxEdge is called for the same out-edge.
HeadOfLoop(t) ==
  (pc[t] = "check" /\ pc'[t] # "check") =>
     IF req[t].w # dist[Src(t)]
       THEN /\ pc'[t] = "idle"
            /\ req'[t] = NoReq
            /\ dist' = dist
            /\ wl' = wl
            /\ wset' = wset
            /\ inSet' = inSet
       ELSE /\ pc'[t] = "arg"
            /\ req'[t] = req[t]
            /\ ii'[t] = ii[t]

\* relaxEdge is called only from the head of the loop, for every out-edge
\* anew.
CalledFromHead(t) ==
  (pc'[t] = "arg" /\ pc[t] # "arg") => (pc[t] = "check" /\ req[t].w = dist[Src(t)])

\* relaxEdge takes the distance the source holds as it is called.
TakesHeldDistance(t) ==
  (pc[t] = "arg" /\ pc'[t] # "arg") =>
     /\ sdist'[t] = dist[Src(t)]
     /\ sdist'[t] <= req[t].w
     /\ newDist'[t] = DistAdd(dist[Src(t)], Weight(t))

\* C26: in AsyncAlgo::relaxNode the source distance is read again before
\* every out-edge; when it differs from req.w the request is given up with
\* its remaining out-edges unrelaxed; a relaxation the request performs uses
\* a distance the source held, which is at most req.w.
C26_MidScanAbandonment ==
  /\ [](InRelaxNode =>
          \A t \in Workers : pc[t] \in {"read", "cas"} => sdist[t] <= req[t].w)
  /\ [][InRelaxNode =>
          \A t \in Workers : HeadOfLoop(t) /\ CalledFromHead(t) /\ TakesHeldDistance(t)]_vars

\* A relaxation of a later out-edge with a source distance below req.w: the
\* source was lowered after the head of the loop had compared it.
C26_Witness ==
  /\ InRelaxNode
  /\ \E t \in Workers :
       /\ pc[t] = "read"
       /\ ii[t] > 1
       /\ sdist[t] < req[t].w

\* ---- C27

\* The step wrote a lower distance over one that was not INF.
LoweredKnown ==
  \E u \in Nodes(graph) : dist'[u] < dist[u] /\ dist[u] # DIST_INFINITY

\* What C27 says of a step of thread t inside relaxEdge: BadWork grows by one
\* when the step lowered a distance that was not INF, and not otherwise (a
\* write over INF, a failed compare-and-swap, a test that fails).
CountsBadWork ==
  BadWork' = IF LoweredKnown THEN BadWork + 1 ELSE BadWork

\* C27: BadWork grows by exactly one with every write of relaxEdge that
\* lowers a distance other than INF, and with no other step; the count at the
\* end of a run is therefore the improving writes less those over INF.
C27_BadWorkCounting ==
  [][\A t \in Workers : (InRelaxEdge(t) /\ StepOf(t)) => CountsBadWork]_vars

\* C27, for the runs it holds of: the variants with CAS, and every variant
\* on a graph whose source has no two out-edges to one node.
C27_BadWorkWithCas ==
  [][\A t \in Workers :
       (InRelaxEdge(t) /\ StepOf(t) /\ (Cas \/ Graphs[graph] # ParallelEdges))
         => CountsBadWork]_vars

\* ---- C28

BagEmpty == \A t \in Workers : initial[t] = << >>

\* The order of the driver, in a state: every dist is INF when the source is
\* about to get 0; no out-edge is relaxed and nothing is in the bag before
\* the source has 0; nothing is popped or queued while the out-edges of the
\* source are relaxed; all of them have been handed out when workers pop.
DriverOrder ==
  /\ phase = "operator" => \A v \in Nodes(graph) : dist[v] = DIST_INFINITY
  /\ phase \in {"start", "init", "operator"} =>
       AllIdle /\ BagEmpty /\ WLEmpty /\ popped = 0
  /\ phase = "seed" => dist[startNode] = 0 /\ WLEmpty /\ popped = 0
  /\ phase = "run" => seedTodo = {} /\ BagEmpty

\* The loop of the workers starts when every out-edge of the source has
\* been relaxed.
SeedingCompletes == (phase = "seed" /\ phase' = "run") => (seedTodo = {} /\ AllIdle)

\* A step of the relaxation of a source out-edge by thread t: the bag gets
\* the request for the destination when the step lowered its distance, and
\* nothing otherwise.
SeedsBag(t) ==
  IF Lowered(t)
    THEN initial' = [initial EXCEPT ![t] = Append(@, Pushed(t))]
    ELSE initial' = initial

\* No request in the bag is for the source.
NoSelfRequest ==
  \A t \in Workers : \A i \in 1..Len(initial[t]) : initial[t][i].n # startNode

\* C28: the driver's steps are ordered (all dist INF, then dist[source] = 0,
\* then the relaxation of the source's out-edges, then the pops), and the
\* bag gets one request for every relaxation of a source out-edge that
\* lowered the destination's distance, none else, and none for a self-loop.
C28_DriverOrderAndSeeding ==
  /\ [](Parallel => (DriverOrder /\ NoSelfRequest))
  /\ [][Parallel =>
          /\ SeedingCompletes
          /\ \A t \in Workers :
               (phase = "seed" /\ InRelaxEdge(t) /\ StepOf(t)) => SeedsBag(t)]_vars

\* C28, for the runs it holds of: the variants with CAS, and every variant
\* on a graph whose source has no two out-edges to one node.
C28_SeedingWithCas ==
  /\ [](Parallel => (DriverOrder /\ NoSelfRequest))
  /\ [][(Parallel /\ (Cas \/ Graphs[graph] # ParallelEdges)) =>
          /\ SeedingCompletes
          /\ \A t \in Workers :
               (phase = "seed" /\ InRelaxEdge(t) /\ StepOf(t)) => SeedsBag(t)]_vars

\* ---- C29

\* AsyncSetAlgo::relaxNode is running.
InSetRelaxNode == Kind = "AsyncSetAlgo" /\ phase = "run"

\* The tokens on the work list and in the operators carry a node and no
\* distance.
NodeTokens ==
  \A t \in Workers :
    /\ req[t].w = 0
    /\ \A i \in 1..Len(wl[t]) : wl[t][i].w = 0

\* A step of thread t in the operator: the out-edges are taken in order, one
\* after the other, the operator returns after the last one only, and
\* nothing is counted as empty work.
ScansAll(t) ==
  /\ WLEmptyWork' = WLEmptyWork
  /\ (pc[t] # "idle" /\ pc'[t] = "idle") => ii[t] = Degree(graph, Src(t))
  /\ (pc[t] # "idle" /\ pc'[t] # "idle") =>
       /\ req'[t] = req[t]
       /\ ii'[t] \in {ii[t], ii[t] + 1}
       /\ ii'[t] = ii[t] + 1 => pc[t] \in {"gate", "read", "cas"}

\* relaxEdge computes the proposed distance from the distance the node holds
\* as the edge is relaxed.
FromCurrent(t) ==
  (pc[t] = "arg" /\ pc'[t] # "arg") =>
     /\ sdist'[t] = dist[Src(t)]
     /\ newDist'[t] = DistAdd(dist[Src(t)], Weight(t))

\* C29: in AsyncSetAlgo a token is a node; a popped node has all its
\* out-edges scanned, none is discarded as empty work, and the proposed
\* distance of each edge is dist[v] as read at that edge plus the weight.
C29_SetRelaxesFromCurrent ==
  /\ [](InSetRelaxNode => NodeTokens)
  /\ [][InSetRelaxNode =>
          \A t \in Workers : StepOf(t) => (ScansAll(t) /\ FromCurrent(t))]_vars

\* The last of several out-edges of a popped node is being relaxed from the
\* distance the node holds, after a write that lowered a known distance.
C29_Witness ==
  /\ InSetRelaxNode
  /\ \E t \in Workers :
       /\ pc[t] = "read"
       /\ ii[t] > 1
       /\ ii[t] = Degree(graph, Src(t))
       /\ sdist[t] = dist[Src(t)]
       /\ \E u \in Workers \ {t} : pc[u] = "idle" /\ BadWork > 0

\* ---- C30

\* for_each_local runs on OBIM with a delta that is a shift count.
ObimRun == UsesObim(WLType) /\ stepShift >= 0 /\ phase = "run"

\* idx(item): w >> stepShift, in the set variants dist[v] >> stepShift, the
\* distances being d.
Idx(e, d) == (IF Kind = "AsyncSetAlgo" THEN d[e.n] ELSE e.w) \div 2^stepShift

\* A step in which thread t pushes: the item is in bucket idx(item), and the
\* cached current bucket of t, of no other thread, is lowered to it when it
\* is smaller.
ObimPush(t) ==
  Len(wl'[t]) = Len(wl[t]) + 1 =>
     LET e == wl'[t][Len(wl'[t])]
     IN  /\ e.b = Idx(e, dist')
         /\ cur' = [cur EXCEPT ![t] = Min2(cur[t], e.b)]

\* A step in which thread t pops: from its cached current bucket while it
\* has entries there itself, which it takes in order, otherwise from the
\* lowest bucket that holds an entry, which becomes its current bucket.
ObimPop(t) ==
  /\ pc[t] = "idle"
  /\ ActiveBuckets(wl) # {}
  /\ LET b == IF Chunk(wl[t], cur[t]) # << >>
                THEN cur[t] ELSE MinOf(ActiveBuckets(wl))
         E == Entries(wl) \cup Entries(wl')
     IN  /\ cur' = [cur EXCEPT ![t] = b]
         /\ \E x \in E :
              /\ x.b = b
              /\ Delta(x) = -1
              /\ \A e \in E \ {x} : Delta(e) = 0
              /\ pc'[t] # "idle" => req'[t] = [n |-> x.n, w |-> x.w]
              /\ Chunk(wl[t], cur[t]) # << >> =>
                   /\ x = Head(Chunk(wl[t], cur[t]))
                   /\ \A o \in Workers \ {t} : wl'[o] = wl[o]

\* C30: under OBIM a pushed item goes to bucket idx(item) and lowers the
\* pushing thread's current bucket to it; a pop takes from the thread's
\* current bucket while the thread has entries there, otherwise from the
\* lowest bucket that holds an entry; a pop comes back empty only when no
\* bucket holds an entry. (For a negative delta w >> stepShift has no
\* value: see C18.)
C30_ObimBucketSelection ==
  /\ [](ObimRun =>
          \A t \in Workers :
            PopResults([wl |-> wl, cur |-> cur], t) = {} => ActiveBuckets(wl) = {})
  /\ [][/\ (UsesObim(WLType) /\ stepShift >= 0 /\ phase = "seed" /\ phase' = "run") =>
             \A e \in Entries(wl') : e.b = Idx(e, dist)
        /\ (ObimRun /\ phase' = "run") =>
             /\ \A t \in Workers : (InRelaxEdge(t) /\ StepOf(t)) => ObimPush(t)
             /\ popped' # popped => \E t \in Workers : ObimPop(t)]_vars

\* A thread whose next pop takes from its current bucket although another
\* thread holds an entry of a lower bucket.
C30_Witness ==
  /\ ObimRun
  /\ popped > 0
  /\ \E t \in Workers :
       /\ pc[t] = "idle"
       /\ Chunk(wl[t], cur[t]) # << >>
       /\ cur[t] > MinOf(ActiveBuckets(wl))

\* ------------------------------------------------------ algorithm selection

\* What a name states, read off its spelling: the names containing WithCas,
\* Fifo, Blind, and the names ending in HSet, MSet, OSet.
WithCasNames == {"asyncWithCas", "asyncWithCasFifo"} \cup CasSetAlgos

FifoNames ==
  {"asyncFifo", "asyncWithCasFifo",
   "asyncBlindFifo", "asyncBlindFifoHSet", "asyncBlindFifoMSet",
   "asyncBlindFifoOSet",
   "asyncWithCasBlindFifo", "asyncWithCasBlindFifoHSet",
   "asyncWithCasBlindFifoMSet", "asyncWithCasBlindFifoOSet"}

BlindNames == CasSetAlgos \cup PlainSetAlgos

HSetNames ==
  {"asyncBlindFifoHSet", "asyncBlindObimHSet",
   "asyncWithCasBlindFifoHSet", "asyncWithCasBlindObimHSet"}

MSetNames ==
  {"asyncBlindFifoMSet", "asyncBlindObimMSet",
   "asyncWithCasBlindFifoMSet", "asyncWithCasBlindObimMSet"}

OSetNames ==
  {"asyncBlindFifoOSet", "asyncBlindObimOSet",
   "asyncWithCasBlindFifoOSet", "asyncWithCasBlindObimOSet"}

\* The scheduler and the work-set wrapper named by the work list type.
FifoBased(wlt) == wlt \in {"dChunkedFIFO", "MSet", "OSet", "HSet"}

Wrapper(wlt) ==
  CASE wlt \in {"HSet", "ObimHSet"} -> "hash"
    [] wlt \in {"MSet", "ObimMSet"} -> "marking"
    [] wlt \in {"OSet", "ObimOSet"} -> "ordered"
    [] OTHER -> "none"

StatedWrapper(a) ==
  CASE a \in HSetNames -> "hash"
    [] a \in MSetNames -> "marking"
    [] a \in OSetNames -> "ordered"
    [] OTHER -> "none"

\* The relaxation, the scheduler, the work-set and the operator a parallel
\* run uses are the ones its name states. The CAS and the non-CAS relaxation
\* are the two instances of relaxEdge<UseCas>; asyncPP has a relaxation of
\* its own, which the name describes as push-pull.
RunsAsNamed ==
  /\ Kind # "AsyncAlgoPP" => (Cas <=> algo \in WithCasNames)
  /\ FifoBased(WLType) <=> algo \in FifoNames
  /\ UsesObim(WLType) <=> algo \notin FifoNames
  /\ Wrapper(WLType) = StatedWrapper(algo)
  /\ (Kind = "AsyncSetAlgo") <=> algo \in BlindNames

\* The program did not stop in the default case of main()'s switch.
RunsSomeAlgorithm == phase = "aborted" => BadNode

\* C31: every accepted --algo value runs some algorithm, and every parallel
\* one runs the combination its name states: CAS relaxation exactly for the
\* names containing WithCas, dChunkedFIFO exactly for the names containing
\* Fifo and OBIM for the others, the hash, marking or ordered work-set for
\* the names ending in HSet, MSet or OSet, and the set operator without the
\* empty-work gate exactly for the names containing Blind.
C31_AlgorithmSelection ==
  phase # "start" =>
    /\ RunsSomeAlgorithm
    /\ algo # "serial" => RunsAsNamed

\* C31, for the values main() has a case for: each runs an algorithm, and
\* each parallel one runs what its name states.
C31_HandledSelection ==
  (phase # "start" /\ Kind # "Unknown") =>
    /\ RunsSomeAlgorithm
    /\ Parallel => RunsAsNamed

\* ---------------------------------------------------------- CAS retry loop

\* The positions an out-edge can have in its node's edge range.
EdgePositions ==
  UNION {1..Degree(g, v) : <<g, v>> \in UNION {{<<h, n>> : n \in Nodes(h)} : h \in GraphIds}}

\* Thread t is in the call of relaxEdge for the edge at position i.
InCall(t, i) == InRelaxEdge(t) /\ ii[t] = i

\* The step is a compare-and-swap of thread t that failed: the loop goes on.
FailedCas(t) == pc[t] = "cas" /\ Cas /\ pc'[t] = Retry(Kind)

\* compare_exchange_weak may fail on the expected value.
WeakCas == Kind \in {"AsyncAlgo", "AsyncAlgoPP"}

\* The failure has a cause: the destination's distance is strictly below
\* the value read at the head of the iteration, or the weak CAS failed on it.
FailureCaused(t) ==
  \/ dist[Dst(t)] < oldDist[t]
  \/ WeakCas /\ dist[Dst(t)] = oldDist[t]

\* The step changed nothing another thread reads or waits for.
BlocksNobody(t) ==
  /\ dist' = dist
  /\ inSet' = inSet
  /\ worklist' = worklist
  /\ initial' = initial
  /\ seedTodo' = seedTodo
  /\ phase' = phase
  /\ \A u \in Workers \ {t} :
       /\ pc'[u] = pc[u]
       /\ req'[u] = req[u]
       /\ ii'[u] = ii[u]
       /\ oldDist'[u] = oldDist[u]
       /\ newDist'[u] = newDist[u]

\* The iteration's position in the loop: the test at its head has
\* newDist < oldDist for the value read, and a thread that is to retry still
\* handles the same edge with the same newDist.
SameCall(t) ==
  /\ req'[t] = req[t]
  /\ ii'[t] = ii[t]
  /\ newDist'[t] = newDist[t]

\* C32: under fair scheduling every call of relaxEdge returns; a thread at
\* the compare-and-swap holds newDist < oldDist; a compare-and-swap that
\* fails does so because the destination's distance is strictly below the
\* value the iteration read (or, for the weak CAS, spuriously), leaves the
\* call where it was, and changes nothing another thread reads.
C32_CasRetryProgress ==
  /\ [](\A t \in Workers : (pc[t] = "cas") => newDist[t] < oldDist[t])
  /\ [][\A t \in Workers :
          FailedCas(t) => (FailureCaused(t) /\ SameCall(t) /\ BlocksNobody(t))]_vars
  /\ \A t \in Workers : \A i \in EdgePositions :
       InCall(t, i) ~> ~InCall(t, i)

\* A thread is at a compare-and-swap that will fail: since it read oldDist
\* another thread has lowered the destination's distance below it, and to
\* or below newDist, so the retry will leave the loop at its test.
C32_Witness ==
  \E t \in Workers :
    /\ pc[t] = "cas"
    /\ Cas
    /\ dist[Dst(t)] < oldDist[t]
    /\ dist[Dst(t)] <= newDist[t]

\* ----------------------------------------------------------- path witnesses

\* The lengths, in the integers, of the directed paths from s to v.
PathLengths(g, s, v) == {p[2] : p \in {q \in SimplePaths(g, s) : q[1] = v}}

\* The distances have been initialized: Initialize has run on every node.
DistInitialized == phase \in {"operator", "seed", "run", "verify", "done"}

\* Every finite distance is the length of a path from the source.
DistWitnessed ==
  \A v \in Nodes(graph) :
    dist[v] # DIST_INFINITY => dist[v] \in PathLengths(graph, startNode, v)

\* Every request in the bag, on the work list or being processed proposes
\* the length of a path from the source to its node.
RequestsWitnessed ==
  \A t \in Workers : \A r \in Requests(t) :
    r.w \in PathLengths(graph, startNode, r.n)

\* C33: in AsyncAlgo and AsyncSetAlgo, in every reachable state with
\* initialized distances, every finite dist[v] is the length of some
\* directed path from the source to v (so it is not below the shortest
\* distance of v), and so is the distance w of every queued request.
C33_NoUnderestimate ==
  (DistInitialized /\ Kind \in {"AsyncAlgo", "AsyncSetAlgo"}) =>
    /\ DistWitnessed
    /\ Kind = "AsyncAlgo" => RequestsWitnessed

\* C33, for the graphs it holds of: those on which no sum of a path and an
\* edge reaches 2^DistBits - 1.
C33_NoUnderestimateInRange ==
  (/\ DistInitialized
   /\ Kind \in {"AsyncAlgo", "AsyncSetAlgo"}
   /\ NoOverflow(graph, startNode)) =>
    /\ DistWitnessed
    /\ Kind = "AsyncAlgo" => RequestsWitnessed

\* ---------------------------------------------------------------- push-pull

\* Thread t of AsyncAlgoPP is in the loop over the out-edges of its node.
InPPScan(t) == phase = "run" /\ InRelaxEdge(t)

\* The local source distance of every thread in the loop is the length of a
\* path from the source to the thread's node.
SdistWitnessed ==
  \A t \in Workers :
    InPPScan(t) => sdist[t] \in PathLengths(graph, startNode, Src(t))

\* No finite distance is below the shortest distance of its node.
NotBelowShortest ==
  \A v \in Nodes(graph) :
    dist[v] # DIST_INFINITY =>
      /\ v \in Reachable(graph, startNode)
      /\ dist[v] >= ShortestPath(graph, startNode, v)

\* C34: in asyncPP on a directed graph (on which no sum overflows), the
\* local source distance, also after a pull, is the length of a directed
\* path from the source, so is every distance written or pushed from it,
\* and no dist[v] is below the shortest distance of v, during the run and
\* at its end.
C34_PushPullDirected ==
  (/\ DistInitialized
   /\ Kind = "AsyncAlgoPP"
   /\ NoOverflow(graph, startNode)) =>
    /\ SdistWitnessed
    /\ DistWitnessed
    /\ RequestsWitnessed
    /\ NotBelowShortest

\* -------------------------------------------------------------- pending work

\* for_each_local has been entered: seeding is over.
AfterSeeding == phase \in {"run", "verify", "done"}

\* Out-edge i of u can still be relaxed: the destination is above the sum,
\* as the integers have it or as relaxEdge forms it.
Unrelaxed(u, i) ==
  LET v == EdgeDst(graph, u, i)
      w == EdgeData(graph, u, i)
  IN  dist[v] > dist[u] + w \/ dist[v] > DistAdd(dist[u], w)

\* The request (u, dist[u]) is in the bag or on the work list.
QueuedCurrent(u) ==
  \E t \in Workers :
    \/ \E k \in 1..Len(initial[t]) :
         initial[t][k].n = u /\ initial[t][k].w = dist[u]
    \/ \E k \in 1..Len(wl[t]) : wl[t][k].n = u /\ wl[t][k].w = dist[u]

\* A thread is processing the request (u, dist[u]) and has not gone past
\* out-edge i of u.
ProcessingCurrent(u, i) ==
  \E t \in Workers :
    /\ pc[t] # "idle"
    /\ req[t] = [n |-> u, w |-> dist[u]]
    /\ ii[t] <= i

InProcess(t) == phase = "run" /\ pc[t] # "idle"

\* The nodes whose distance the step changed.
Written == {x \in Nodes(graph) : dist'[x] # dist[x]}

\* A step of thread t inside the operator on node v writes distances of
\* destinations of out-edges of v only, and not the distance of v; the
\* graph, with its edges and weights, stays what it was.
FrameOf(t) ==
  /\ Written \subseteq (Neighbors(graph, Src(t)) \ {Src(t)})
  /\ graph' = graph

\* C36: a step of the operator processing a request for node v changes the
\* distance of no node that is not the destination of an out-edge of v, does
\* not change dist[v], and leaves the graph unchanged.
C36_OperatorFrame ==
  [][\A t \in Workers :
       (InProcess(t) /\ StepOf(t) /\ Kind = "AsyncAlgo") => FrameOf(t)]_vars

\* C36, for the graphs it holds of: those on which no sum overflows.
C36_OperatorFrameInRange ==
  [][\A t \in Workers :
       (/\ InProcess(t)
        /\ StepOf(t)
        /\ Kind = "AsyncAlgo"
        /\ NoOverflow(graph, startNode)) => FrameOf(t)]_vars

\* ----------------------------------------------------------- serial baseline

\* The step is an iteration of SerialAlgo's loop: a request is extracted.
SerialExtracts == phase = "serial" /\ serialInitial # {}

\* The request the iteration extracts.
Extracted == SetBegin(serialInitial)

\* The extracted request proposes the least distance of the set, and no
\* request in the set after the iteration proposes less: requests leave the
\* set in non-decreasing order of w.
ExtractsInOrder ==
  /\ \A r \in serialInitial : Extracted.w <= r.w
  /\ \A r \in serialInitial' : Extracted.w <= r.w

\* The iteration assigns no distance but that of the request's node, and
\* that one only when req.w < dist[req.n], to req.w.
AssignsIfLess ==
  /\ \A v \in Nodes(graph) \ {Extracted.n} : dist'[v] = dist[v]
  /\ IF Extracted.w < dist[Extracted.n]
       THEN dist'[Extracted.n] = Extracted.w
       ELSE dist' = dist /\ serialInitial' = serialInitial \ {Extracted}

\* A distance the iteration assigns had not been assigned before, and the
\* value assigned is the shortest distance of the node.
SettlesOnce ==
  \A v \in Nodes(graph) :
    dist'[v] # dist[v] =>
      /\ dist[v] = DIST_INFINITY
      /\ v \in Reachable(graph, startNode)
      /\ dist'[v] = ShortestPath(graph, startNode, v)

\* C37: every iteration of SerialAlgo extracts the request with the least
\* proposed distance, later extractions proposing no less; it assigns
\* dist[v] only for the request's node and only when req.w < dist[v]; and
\* each dist[v] is assigned at most once, the value being the shortest
\* distance of v.
C37_SerialSettlesOnce ==
  [][SerialExtracts => (ExtractsInOrder /\ AssignsIfLess /\ SettlesOnce)]_vars

\* C37, for the graphs it holds of: those on which no sum overflows.
C37_SerialSettlesOnceInRange ==
  [][(SerialExtracts /\ NoOverflow(graph, startNode)) =>
       (ExtractsInOrder /\ AssignsIfLess /\ SettlesOnce)]_vars

\* ------------------------------------------------------ verifier, any array

\* Every value a distance cell can hold.
DistValues == 0..(Modulus - 1)

\* verify() called on an arbitrary dist array: run() is at its call of
\* verify, the node data holding any values.
VerifierInit ==
  /\ algo = "serial"
  /\ graph \in GraphIds
  /\ startNode \in {0, 1}
  /\ reportNode = 1
  /\ stepShift = 10
  /\ shiftCount \in ShiftCounts(stepShift)
  /\ phase = "verify"
  /\ dist \in [Nodes(graph) -> DistValues]
  /\ inSet = [v \in Nodes(graph) |-> FALSE]
  /\ wset = {}
  /\ initial = [t \in Workers |-> << >>]
  /\ serialInitial = {}
  /\ seedTodo = {}
  /\ wl = [t \in Workers |-> << >>]
  /\ cur = [t \in Workers |-> 0]
  /\ pc = [t \in Workers |-> "idle"]
  /\ req = [t \in Workers |-> NoReq]
  /\ ii = [t \in Workers |-> 0]
  /\ sdist = [t \in Workers |-> 0]
  /\ newDist = [t \in Workers |-> 0]
  /\ oldDist = [t \in Workers |-> 0]
  /\ exitCode = "running"
  /\ prev = << >>
  /\ BadWork = 0
  /\ WLEmptyWork = 0
  /\ popped = 0
  /\ ConverterIdle

VerifierNext == Verify

VerifierSpec == VerifierInit /\ [][VerifierNext]_vars

\* verify has returned true.
Verified == phase = "done" /\ exitCode = "ok"

\* No sum of a path from the source and one more edge exceeds what a Dist
\* holds: no addition overflows.
Representable(g, s) == \A x \in PathSums(g, s) : x < Modulus

\* Every node reachable from the source has a finite distance that is at
\* most its shortest distance.
BoundedByShortest ==
  \A v \in Reachable(graph, startNode) :
    /\ dist[v] # DIST_INFINITY
    /\ dist[v] <= ShortestPath(graph, startNode, v)

\* C38 as stated: on a graph on which no sum overflows, a dist array that
\* verify accepts has, for every node reachable from the source, a finite
\* distance at most the node's shortest distance.
C38_VerifierSoundness ==
  (Verified /\ Representable(graph, startNode)) => BoundedByShortest

\* C38: on a graph whose sums of a path and an edge are all below INF, a
\* dist array that verify accepts has, for every node reachable from the
\* source, a finite distance at most the node's shortest distance.
C38_VerifierSoundnessBelowInf ==
  (Verified /\ NoOverflow(graph, startNode)) => BoundedByShortest

\* verify has accepted an array that is below the shortest distance at a
\* reachable node: the bound is not an equality.
C38_Witness ==
  /\ Verified
  /\ NoOverflow(graph, startNode)
  /\ \E v \in Reachable(graph, startNode) :
       dist[v] < ShortestPath(graph, startNode, v)

\* ------------------------------------------------------- per-node locking

\* Host h is in the do_all of sendAssignedEdges with edge data.
SavingData(h) == withData /\ h \in Hosts /\ hostPhase[h] = "Pass2"

\* Thread t of host h is between lock() and unlock().
InCritical(h, t) ==
  /\ edgesToSend[h][t] # << >>
  /\ savePc[h][t] \in {"dest", "data", "unlock"}

\* Entry k of the data vector of node l is the data of the edge whose
\* destination is entry k of the destination vector: host h has saved an
\* edge of node l with that destination and that data.
Belongs(h, l, k) ==
  \E i \in Passed(h) :
    /\ EdgeAt(h, i).edgeOwner = h
    /\ EdgeAt(h, i).localID = l
    /\ EdgeAt(h, i).dst = localSrcToDest[h][l][k]
    /\ EdgeAt(h, i).edgeData = localSrcToData[h][l][k]

\* No thread holds the mutex of local node l of host h.
Free(h, l) == nodeLocks[h][l] = 0

\* The mutex of a node is held by the thread that is saving an edge of it,
\* and outside the critical section the two vectors of the node have the
\* same length and correspond entry by entry.
PairedOutside(h) ==
  /\ \A t \in Workers : InCritical(h, t) => nodeLocks[h][SavedNode(h, t)] = t
  /\ \A l \in DOMAIN localSrcToDest[h] :
       Free(h, l) =>
         /\ Len(localSrcToDest[h][l]) = Len(localSrcToData[h][l])
         /\ \A k \in 1..Len(localSrcToDest[h][l]) : Belongs(h, l, k)

\* A step that changes a vector of node l is taken with the mutex of l held,
\* before and after.
AppendsUnderLock(h) ==
  \A l \in DOMAIN localSrcToDest[h] :
    (\/ localSrcToDest'[h][l] # localSrcToDest[h][l]
     \/ localSrcToData'[h][l] # localSrcToData[h][l])
      => (~Free(h, l) /\ nodeLocks'[h][l] = nodeLocks[h][l])

\* C39: in sendAssignedEdges with edge data, the destination and the data
\* of an edge are appended to localSrcToDest[i] and localSrcToData[i] while
\* nodeLocks[i] is held, so that under every interleaving of the threads,
\* whenever nodeLocks[i] is free, the two vectors of node i have the same
\* length and entry k of the data vector is the data of the edge whose
\* destination is entry k of the destination vector.
C39_PerNodeLocking ==
  /\ [](\A h \in AllHosts : SavingData(h) => PairedOutside(h))
  /\ [][\A h \in AllHosts : SavingData(h) => AppendsUnderLock(h)]_vars

\* Two threads of a host are on edges of one node: one holds the mutex and
\* has appended the destination but not yet the data, the other waits.
C39_Witness ==
  \E h \in AllHosts :
    /\ SavingData(h)
    /\ \E t \in Workers : \E u \in Workers \ {t} :
         /\ Saving(h, t, "data")
         /\ Saving(h, u, "edge")
         /\ SavedNode(h, u) = SavedNode(h, t)
         /\ Len(localSrcToDest[h][SavedNode(h, t)])
              = Len(localSrcToData[h][SavedNode(h, t)]) + 1
====
